---- MODULE Spec2Model ----
(***************************************************************************)
(* Model of the KVM replication engine rsync_KVM_OS.py (class               *)
(* KVMReplicator).  One instance of the tool is one process i \in Inst; the *)
(* record self[i] holds the fields of its KVMReplicator object, main[i] the *)
(* locals of KVMReplicator.main() together with its position pc.  The      *)
(* source host's volume manager and mount table (vx), the live file system *)
(* (lfs) and each instance's destination host (remote[i]) are the          *)
(* environment the external commands act on.                               *)
(***************************************************************************)
EXTENDS Integers, Sequences, FiniteSets, TLC

\* ------------------------------------------------------------------ bounds
NumInst == 2
MaxMtime == 2
MaxRuns == 2
MaxFaults == 2
SnapFaults == 1

Inst == 1..NumInst
\* Python's None and a present value: the empty and the one-element tuple.
None == <<>>
Some(x) == <<x>>
The(o) == o[1]
unknown == "unknown"

\* ------------------------------------------------- configuration constants
DEFAULT_KVM_IMAGES_SRC_DIRS == <<"/shared/kvm0/images">>
VXSNAP_PREFIX == "/run/user/0"
VXFS_SNAPSHOTS_ENABLED == TRUE
KvmFsMnt == "/shared/kvm0"

\* The virtual machines with a configuration document on the source host and
\* the disk / NVRAM files their documents reference (parse_vm_xml).
VMs == {"alpha", "beta"}
Kinds == {"disk", "nvram"}
SubDir(kind) == IF kind = "disk" THEN "images" ELSE "nvram"
Base(vm, kind) == <<vm, kind>>
Bases == {Base(vm, k) : vm \in VMs, k \in Kinds}
LivePath(vm, kind) == [mnt |-> KvmFsMnt, dir |-> SubDir(kind), base |-> Base(vm, kind)]
parse_vm_xml(vm) == [disks |-> <<LivePath(vm, "disk")>>, nvrams |-> <<LivePath(vm, "nvram")>>]

\* str.replace(old, new) on a path that starts with the mount point `old`.
replace(path, old, new) == IF path.mnt = old THEN [path EXCEPT !.mnt = new] ELSE path
basename(path) == path.base

\* HostConfig records of the host configuration table (_init_host_configs).
KVM_STD_CONFIG ==
  [remote_host |-> "", threads |-> 1,
   kvm_images_dst_dirs |-> <<"/shared/kvm0/images">>,
   kvm_nvram_dst_dirs |-> <<"/shared/kvm0/nvram">>,
   stat_path |-> "", skip_define |-> FALSE, vxfs_snapshots |-> TRUE,
   skip_mount_check |-> FALSE, skip_stat_check |-> FALSE, default_vm_list |-> VMs]
NAS_STD_CONFIG ==
  [KVM_STD_CONFIG EXCEPT !.kvm_images_dst_dirs = <<"/volume1/kvm0/images">>,
                         !.kvm_nvram_dst_dirs = <<"/volume1/kvm0/nvram">>,
                         !.stat_path = "/opt/bin/stat", !.skip_define = TRUE,
                         !.skip_mount_check = TRUE]
TableHosts == {"daltigoth", "thorbardin", "kalaman", "rh8x64"}
host_configs(h) ==
  CASE h = "daltigoth"  -> [KVM_STD_CONFIG EXCEPT !.remote_host = "daltigoth-228", !.threads = 2]
    [] h = "thorbardin" -> [KVM_STD_CONFIG EXCEPT !.vxfs_snapshots = FALSE]
    [] h = "kalaman"    -> [NAS_STD_CONFIG EXCEPT !.threads = 2]
    [] h = "rh8x64"     -> [KVM_STD_CONFIG EXCEPT !.default_vm_list = {"beta"}]
DefaultHostConfig == KVM_STD_CONFIG
get_effective_remote_host(cfg, detected_hostname) ==
  IF cfg.remote_host # "" THEN cfg.remote_host ELSE detected_hostname

\* Names the resolver knows (socket.gethostbyname succeeds).
Resolvable == {"daltigoth", "daltigoth-228", "thorbardin", "kalaman", "rh8x64", "palanthas", "elsewhere"}
RequestableHosts == {"", "nowhere"} \cup Resolvable

VARIABLES
  self,      \* [Inst -> fields of the KVMReplicator object]
  main,      \* [Inst -> locals of main(): pc, vm_list, the sync lists, success, ...]
  hostname,  \* socket.gethostname() of the source host
  procs,     \* [Inst -> transfer processes still running that the object no longer tracks]
  lfs,       \* live source files: base -> mtime, 0 when the file does not exist
  lrun,      \* the domains running on the source host
  vx,        \* source host volume manager and mount table
  remote,    \* [Inst -> destination host state: files, defined domains, ...]
  cmds,      \* [Inst -> sequence of the stages / external commands run so far]
  run,       \* [Inst -> exit codes of the instance's earlier runs, oldest first]
  faults,    \* how many more commands may fail, or runs be interrupted
  xml_content \* configuration documents handed to the machine-type normalisation

vars == <<self, main, hostname, procs, lfs, lrun, vx, remote, cmds, run, faults, xml_content>>

\* ------------------------------------------------------------ initial state
\* KVMReplicator.__init__: the object as constructed, before main() runs.
NewReplicator ==
  [force_action |-> FALSE, debug |-> FALSE, test_only |-> FALSE, update_only |-> FALSE,
   poweroff |-> FALSE,
   vxfs_snapshots |-> VXFS_SNAPSHOTS_ENABLED, remote_host |-> "", host_config |-> None,
   stat_available |-> TRUE, running_vms_local |-> None, running_vms_remote |-> None,
   child_processes |-> {}]

\* The frame of main() on entry, with the parsed command line in args.
NewFrame(a, p) ==
  [pc |-> p, args |-> a, detected |-> None, ssh |-> None, df |-> None, vm_list |-> {},
   existing_snapshot_info |-> None, active_snapshot_info |-> None, snapshot_info |-> None,
   snapshot_mount |-> None, kvm_fs_mnt |-> None,
   vms_to_process |-> {}, file_info_list |-> <<>>,
   use_batch_stat |-> FALSE, batch_rc |-> None, stat_queries |-> <<>>, define |-> None, remote_mtimes |-> <<>>,
   local_mtime |-> <<>>, remote_mtime |-> <<>>,
   disk_files |-> <<>>, nvram_files |-> <<>>, vms_to_sync |-> {},
   k |-> 1, rc |-> None, exc |-> None, success |-> TRUE, exit_code |-> None]

NewRemote(files, running) ==
  [files |-> files, running |-> running, xml |-> {}, normalised |-> {}, defined |-> {}, templates |-> {},
   scripts |-> FALSE, down |-> FALSE, received |-> {}]

\* The names the script is installed under, as the pieces its name is made of.
DefaultScript == <<"rsync_KVM_", "OS", ".py">>
ScriptNames == {DefaultScript, <<"rsync_KVM_", "kalaman", "_OS.py">>, <<"rsync_KVM_", ".py">>}

\* The command line (host "": no --host) and the name of the script.
AllArgs ==
  [force : BOOLEAN, debug : BOOLEAN, test : BOOLEAN, update : BOOLEAN, poweroff : BOOLEAN,
   novxsnap : BOOLEAN, host : RequestableHosts, skip_stat_check : BOOLEAN,
   vm_list : SUBSET (VMs \cup {"ghost"}), script : ScriptNames]

FileTimes == [Bases -> 0..MaxMtime]

NoArgs == [force |-> FALSE, debug |-> FALSE, test |-> FALSE, update |-> FALSE, poweroff |-> FALSE,
           novxsnap |-> FALSE, host |-> "", skip_stat_check |-> FALSE, vm_list |-> {},
           script |-> DefaultScript]
NoVx == [vxfs |-> TRUE, prepared |-> FALSE, volumes |-> 0, mounts |-> 0, torn |-> {}]

\* No document has been handed to the normalisation.
NoXml == [parts |-> <<>>, src |-> <<>>, out |-> <<>>, again |-> <<>>, n |-> 0]

\* Instances in Active start a run with a command line from Args; the others
\* never run.  Hostnames, Lfs, Lrun, Vx, Rfs, Rrun, Faults bound the environment.
InitWith(Active, Hostnames, Args, Lfs, Lrun, Vx, Rfs, Rrun, Faults) ==
  /\ xml_content = NoXml
  /\ hostname \in Hostnames
  /\ lfs \in Lfs
  /\ lrun \in Lrun
  /\ vx \in Vx
  /\ self = [i \in Inst |-> NewReplicator]
  /\ \E f \in [Active -> Args] :
       main = [i \in Inst |-> IF i \in Active THEN NewFrame(f[i], "parse_args")
                                              ELSE NewFrame(NoArgs, "off")]
  /\ \E f \in [Active -> {NewRemote(x, r) : x \in Rfs, r \in Rrun}] :
       remote = [i \in Inst |-> IF i \in Active THEN f[i]
                                                ELSE NewRemote([b \in Bases |-> 0], {})]
  /\ cmds = [i \in Inst |-> <<>>]
  /\ procs = [i \in Inst |-> {}]
  /\ run = [i \in Inst |-> <<>>]
  /\ faults = Faults

\* ------------------------------------------------------------------ helpers
host_config(i) == The(self[i].host_config)
Log(i, tag) == cmds' = [cmds EXCEPT ![i] = Append(@, tag)]
At(i, p) == main[i].pc = p

\* The outcomes of an external command, and the account of a failed one.
Answers == IF faults > 0 THEN BOOLEAN ELSE {TRUE}
Charge(failed) == faults' = IF failed THEN faults - 1 ELSE faults
\* sys.exit(code), or main() returning code to sys.exit.
Exited(frame, code) == [frame EXCEPT !.pc = "exit", !.exit_code = Some(code)]

\* ------------------------------------------------------- pre-flight sequence
get_source_host_vxfs_capability ==
  IF hostname \in TableHosts THEN host_configs(hostname).vxfs_snapshots
                             ELSE VXFS_SNAPSHOTS_ENABLED

\* main(): options from the command line; the snapshot switch.
ParseArgs(i) ==
  /\ At(i, "parse_args")
  /\ LET a == main[i].args IN
     self' = [self EXCEPT ![i].debug = a.debug, ![i].force_action = a.force,
                          ![i].poweroff = a.poweroff, ![i].test_only = a.test,
                          ![i].update_only = a.update,
                          ![i].vxfs_snapshots =
                             IF a.novxsnap THEN FALSE ELSE get_source_host_vxfs_capability]
  /\ main' = [main EXCEPT ![i].pc = "determine_host"]
  /\ UNCHANGED <<hostname, xml_content, procs, lfs, lrun, vx, remote, cmds, run, faults>>

\* validate_remote_host, were the name not compared with the local one.
validate_remote_host_resolution_only(h) ==
  /\ h # ""
  /\ h \in Resolvable

\* validate_remote_host: TRUE when the name passes, FALSE when it ends the run.
validate_remote_host(h) ==
  /\ h # ""
  /\ h \in Resolvable
  /\ h # hostname

\* get_remote_host_from_script_name: the script name without "rsync_KVM_",
\* "_OS.py" and ".py".
remove(name, piece) == SelectSeq(name, LAMBDA x : x # piece)
get_remote_host_from_script_name(script) ==
  LET r == remove(remove(remove(script, "rsync_KVM_"), "_OS.py"), ".py") IN
  IF r = <<>> THEN "" ELSE r[1]

\* main(): the destination from --host or from the script name, validated.
DetermineHost(i) ==
  /\ At(i, "determine_host")
  /\ LET a == main[i].args
         remote_host == IF a.host # "" THEN a.host
                        ELSE get_remote_host_from_script_name(a.script)
     IN main' = [main EXCEPT ![i] =
           IF validate_remote_host(remote_host)
             THEN [@ EXCEPT !.pc = "setup_host_config", !.detected = Some(remote_host)]
             ELSE Exited(@, 127)]
  /\ UNCHANGED <<self, hostname, xml_content, procs, lfs, lrun, vx, remote, cmds, run, faults>>

\* The active HostConfig for a detected hostname, were a host outside the
\* table given the record of the NAS hosts.
LookupHostConfig_nas_default(detected_hostname, skip_stat_check) ==
  IF detected_hostname \in TableHosts
    THEN [host_configs(detected_hostname) EXCEPT !.skip_stat_check = skip_stat_check]
    ELSE NAS_STD_CONFIG

\* The active HostConfig for a detected hostname; skip_stat_check is a field an
\* administrator sets in the table entry of a host, drawn with the run's inputs.
\* A host without an entry gets HostConfig's defaults.
LookupHostConfig(detected_hostname, skip_stat_check) ==
  IF detected_hostname \in TableHosts
    THEN [host_configs(detected_hostname) EXCEPT !.skip_stat_check = skip_stat_check]
    ELSE DefaultHostConfig

SetupHostConfig(i) ==
  /\ At(i, "setup_host_config")
  /\ LET cfg == LookupHostConfig(The(main[i].detected), main[i].args.skip_stat_check) IN
     self' = [self EXCEPT ![i].host_config = Some(cfg),
                          ![i].remote_host = get_effective_remote_host(cfg, The(main[i].detected))]
  /\ main' = [main EXCEPT ![i].pc = "test_ssh"]
  /\ UNCHANGED <<hostname, xml_content, procs, lfs, lrun, vx, remote, cmds, run, faults>>

\* test_ssh_connectivity: the round trip works or the run ends with 127.
TestSsh(i) ==
  /\ At(i, "test_ssh")
  /\ \E ok \in Answers :
       LET reached == ok /\ self[i].remote_host \in Resolvable IN
       /\ main' = [main EXCEPT ![i] =
             IF reached THEN [@ EXCEPT !.ssh = Some(TRUE), !.pc = "prefetch"]
                        ELSE Exited([@ EXCEPT !.ssh = Some(FALSE)], 127)]
       /\ Charge(~ok)
  /\ UNCHANGED <<self, hostname, xml_content, procs, lfs, lrun, vx, remote, cmds, run>>

\* get_running_vms_local / get_running_vms_remote: the names listed, or the
\* empty set when the list query fails.
get_running_vms(ok, running) == IF ok THEN running ELSE {}

Prefetch(i) ==
  /\ At(i, "prefetch")
  /\ IF self[i].force_action
       THEN /\ self' = [self EXCEPT ![i].running_vms_local = Some({}),
                                    ![i].running_vms_remote = Some({})]
            /\ UNCHANGED faults
       ELSE \E okl \in Answers, okr \in Answers :
              /\ self' = [self EXCEPT
                    ![i].running_vms_local = Some(get_running_vms(okl, lrun)),
                    ![i].running_vms_remote = Some(get_running_vms(okr, remote[i].running))]
              /\ Charge(~okl \/ ~okr)
  /\ main' = [main EXCEPT ![i].ssh = None, ![i].pc = "test_stat"]
  /\ Log(i, "prefetch")
  /\ UNCHANGED <<hostname, xml_content, procs, lfs, lrun, vx, remote, run>>

\* test_stat_availability: the value of stat_available it leaves, given
\* whether stat works locally, remotely at stat_path and remotely by default.
test_stat_availability(cfg, local_ok, custom_ok, default_ok) ==
  IF ~local_ok THEN FALSE
  ELSE IF cfg.stat_path # ""
         THEN (custom_ok \/ default_ok)
         ELSE default_ok

TestStat(i) ==
  /\ At(i, "test_stat")
  /\ IF host_config(i).skip_stat_check
       THEN UNCHANGED <<self, faults>>
       ELSE \E l \in Answers, c \in Answers, d \in Answers :
              /\ self' = [self EXCEPT ![i].stat_available =
                             test_stat_availability(host_config(i), l, c, d)]
              /\ Charge(~l \/ ~c \/ ~d)
  /\ main' = [main EXCEPT ![i].pc = "check_mounts"]
  /\ UNCHANGED <<hostname, xml_content, procs, lfs, lrun, vx, remote, cmds, run>>

\* What "df -hP dst_dir" can answer on the destination: the command fails, it
\* prints a header only, or it names the mount point.
DfAnswers == {"error", "header_only", "/", "/shared/kvm0"}

\* check_remote_mount_points for one directory, as if "/" were a mount point
\* to replicate to.
mount_point_ok_root_too(df) == df # "error"

\* check_remote_mount_points for one directory: TRUE when the run goes on.
mount_point_ok(df) ==
  \/ df = "header_only"
  \/ df \notin {"error", "/"}

\* check_remote_mount_points: df for every image directory of the destination,
\* unless the host skips the check.
CheckMounts(i) ==
  /\ At(i, "check_mounts")
  /\ IF host_config(i).skip_mount_check
       THEN /\ main' = [main EXCEPT ![i].pc = "process_vm_list"]
            /\ UNCHANGED faults
       ELSE \E df \in [1..Len(host_config(i).kvm_images_dst_dirs) -> DfAnswers] :
              /\ (\E n \in DOMAIN df : df[n] = "error") => faults > 0
              /\ main' = [main EXCEPT ![i] =
                    IF \A n \in DOMAIN df : mount_point_ok(df[n])
                      THEN [@ EXCEPT !.df = Some(df), !.pc = "process_vm_list"]
                      ELSE Exited([@ EXCEPT !.df = Some(df)], 127)]
              /\ Charge(\E n \in DOMAIN df : df[n] = "error")
  /\ UNCHANGED <<self, hostname, xml_content, procs, lfs, lrun, vx, remote, cmds, run>>

\* process_vm_list: the caller's names or the host's default list, kept when
\* the configuration document exists.
process_vm_list(cfg, vm_list) ==
  {vm \in (IF vm_list = {} THEN cfg.default_vm_list ELSE vm_list) : vm \in VMs}

ProcessVmList(i) ==
  /\ At(i, "process_vm_list")
  /\ LET l == process_vm_list(host_config(i), main[i].args.vm_list) IN
     main' = [main EXCEPT ![i] =
        IF l = {} THEN Exited([@ EXCEPT !.df = None], 0)
                  ELSE [@ EXCEPT !.df = None, !.vm_list = l, !.pc = "pass_begin"]]
  /\ UNCHANGED <<self, hostname, xml_content, procs, lfs, lrun, vx, remote, cmds, run, faults>>

\* ------------------------------------------------ inventory and sync set
VxsnapMnt == "/run/user/0/kvm0_snapshot"
SnapshotHandle ==
  [vxdg |-> "kvmdg", vxlv |-> "kvm0", vxsnap_lv |-> "kvm0_snapshot", vxsnap_mnt |-> VxsnapMnt]
VmOrder == <<"alpha", "beta">>

\* findmnt: the snapshot file system is mounted at vxsnap_mnt.
findmnt_vxfs == vx.mounts > 0

\* os.path.exists / os.path.getmtime on the source host: a live path, or a
\* path below the snapshot mount (the snapshot holds the live files' state).
os_path_exists(path) ==
  IF path.mnt = VxsnapMnt THEN findmnt_vxfs /\ lfs[path.base] > 0
                          ELSE lfs[path.base] > 0
get_file_mtime_local(path) == IF os_path_exists(path) THEN lfs[path.base] ELSE 0

\* get_file_mtime(remote=True): stat's answer, 0 when stat fails (no file, or
\* the query itself failed).
get_file_mtime_remote(i, path, ok) ==
  IF ok /\ remote[i].files[path.base] > 0 THEN remote[i].files[path.base] ELSE 0

\* check_existing_snapshot: the handle of a snapshot already mounted; None when
\* one of its commands fails (ok: df and findmnt of the live file system worked).
check_existing_snapshot(ok) ==
  IF ok /\ vx.vxfs /\ findmnt_vxfs THEN Some(SnapshotHandle) ELSE None

\* An exception that leaves main(): the frame as __main__ finds it.
Raised(frame, e) == [frame EXCEPT !.exc = Some(e)]

\* should_skip_vm without the prefetched sets: per-VM domain-state queries.
get_domain_state(vm, running) == IF vm \in running THEN "running" ELSE unknown

\* should_skip_vm that looks at the source host only.
should_skip_vm_local_only(i, vm_name) ==
  IF self[i].force_action THEN FALSE
  ELSE IF self[i].running_vms_local # None /\ self[i].running_vms_remote # None
    THEN vm_name \in The(self[i].running_vms_local)
    ELSE get_domain_state(vm_name, lrun) = "running"

should_skip_vm(i, vm_name) ==
  IF self[i].force_action THEN FALSE
  ELSE IF self[i].running_vms_local # None /\ self[i].running_vms_remote # None
    THEN \/ vm_name \in The(self[i].running_vms_local)
         \/ vm_name \in The(self[i].running_vms_remote)
    ELSE \/ get_domain_state(vm_name, lrun) = "running"
         \/ get_domain_state(vm_name, remote[i].running) = "running"

\* The FileInfo of one referenced file, for destination directory dst_dir.
\* A FileInfo whose remote path were built from the redirected local path.
FileInfo_of_local_path(vm, path, kind, dst_dir, snapshot_mount, kvm_fs_mnt) ==
  [vm_name |-> vm,
   local_path |-> IF snapshot_mount # None /\ kvm_fs_mnt # None
                    THEN replace(path, The(kvm_fs_mnt), The(snapshot_mount)) ELSE path,
   remote_path |-> [dir |-> IF snapshot_mount # None /\ kvm_fs_mnt # None
                              THEN The(snapshot_mount) ELSE dst_dir,
                    base |-> basename(path)],
   file_type |-> kind,
   dst_dir |-> dst_dir]

\* A FileInfo of collect_files_for_sync for a file `path` of the VM's document.
FileInfo(vm, path, kind, dst_dir, snapshot_mount, kvm_fs_mnt) ==
  [vm_name |-> vm,
   local_path |-> IF snapshot_mount # None /\ kvm_fs_mnt # None
                    THEN replace(path, The(kvm_fs_mnt), The(snapshot_mount)) ELSE path,
   remote_path |-> [dir |-> dst_dir, base |-> basename(path)],
   file_type |-> kind,
   dst_dir |-> dst_dir]

\* collect_files_for_sync, the body of its loop for one VM.
FilesOfVm(i, vm, idx, snapshot_mount, kvm_fs_mnt) ==
  LET x == parse_vm_xml(vm)
      cfg == host_config(i)
      d == [n \in DOMAIN x.disks |->
              FileInfo(vm, x.disks[n], "disk", cfg.kvm_images_dst_dirs[idx],
                       snapshot_mount, kvm_fs_mnt)]
      f == [n \in DOMAIN x.nvrams |->
              FileInfo(vm, x.nvrams[n], "nvram", cfg.kvm_nvram_dst_dirs[idx],
                       snapshot_mount, kvm_fs_mnt)]
  IN IF should_skip_vm(i, vm) THEN <<>>
     ELSE SelectSeq(d \o f, LAMBDA fi : os_path_exists(fi.local_path))

RECURSIVE CollectFrom(_, _, _, _, _, _)
CollectFrom(i, vm_list, n, idx, snapshot_mount, kvm_fs_mnt) ==
  IF n > Len(VmOrder) THEN <<>>
  ELSE (IF VmOrder[n] \in vm_list
          THEN FilesOfVm(i, VmOrder[n], idx, snapshot_mount, kvm_fs_mnt) ELSE <<>>)
       \o CollectFrom(i, vm_list, n + 1, idx, snapshot_mount, kvm_fs_mnt)

collect_files_for_sync(i, vm_list, idx, snapshot_mount, kvm_fs_mnt) ==
  LET l == CollectFrom(i, vm_list, 1, idx, snapshot_mount, kvm_fs_mnt) IN
  [vms_to_process |-> {l[n].vm_name : n \in DOMAIN l}, file_info_list |-> l]

\* main(), start of the pass over a source directory: adopt a snapshot that is
\* already mounted.
\* The df that follows (ok: it worked) is outside the try block: its failure
\* leaves main() at once.
PassBegin(i) ==
  /\ At(i, "pass_begin")
  /\ \E ok \in Answers, df_ok \in Answers :
       LET e == IF self[i].vxfs_snapshots THEN check_existing_snapshot(ok) ELSE None IN
       /\ ~ok => self[i].vxfs_snapshots
       /\ ~df_ok => e # None
       /\ main' = [main EXCEPT ![i] =
             IF df_ok
               THEN [@ EXCEPT !.existing_snapshot_info = e,
                              !.active_snapshot_info = e,
                              !.pc = "collect"]
               ELSE Exited(Raised([@ EXCEPT !.existing_snapshot_info = e,
                                            !.active_snapshot_info = e],
                                  "CalledProcessError"), 1)]
       /\ Charge(~ok \/ ~df_ok)
  /\ IF self[i].vxfs_snapshots THEN Log(i, "discover") ELSE UNCHANGED cmds
  /\ UNCHANGED <<self, hostname, xml_content, procs, lfs, lrun, vx, remote, run>>

\* The head of the try block (df again for an adopted snapshot; df_ok: it
\* worked) and phase 1: collect the candidate files; an empty list ends the pass.
Collect(i) ==
  /\ At(i, "collect")
  /\ \E df_ok \in Answers :
       LET e == main[i].existing_snapshot_info
           snapshot_mount == IF e # None THEN Some(The(e).vxsnap_mnt) ELSE None
           kvm_fs_mnt == IF e # None THEN Some(KvmFsMnt) ELSE None
           c == collect_files_for_sync(i, main[i].vm_list, 1, snapshot_mount, kvm_fs_mnt)
       IN /\ ~df_ok => e # None
          /\ IF df_ok
               THEN /\ main' = [main EXCEPT ![i].snapshot_mount = snapshot_mount,
                                            ![i].kvm_fs_mnt = kvm_fs_mnt,
                                            ![i].vms_to_process = c.vms_to_process,
                                            ![i].file_info_list = c.file_info_list,
                                            ![i].pc = IF c.file_info_list = <<>>
                                                        THEN "finally" ELSE "batch_stat"]
                    /\ Log(i, "collect")
               ELSE /\ main' = [main EXCEPT ![i] =
                                  [Raised(@, "CalledProcessError") EXCEPT !.pc = "finally"]]
                    /\ UNCHANGED cmds
          /\ Charge(~df_ok)
  /\ UNCHANGED <<self, hostname, xml_content, procs, lfs, lrun, vx, remote, run>>

Range(q) == {q[n] : n \in DOMAIN q}
Get(d, key, default) == IF key \in DOMAIN d THEN d[key] ELSE default

\* get_batch_remote_mtimes: one remote script prints "mtime path" for a regular
\* file and "0 path" otherwise; any failure of the call gives the empty dict.
get_batch_remote_mtimes(i, file_paths, ok) ==
  IF file_paths = <<>> \/ ~ok THEN <<>>
  ELSE [path \in Range(file_paths) |->
          IF remote[i].files[path.base] > 0 THEN remote[i].files[path.base] ELSE 0]

\* Phase 2, were an empty batch result used all the same.
batch_result_always_used(remote_mtimes, remote_paths) == TRUE

\* Phase 2: the batch result is used unless it is empty for a non-empty list.
batch_result_usable(remote_mtimes, remote_paths) ==
  ~(DOMAIN remote_mtimes = {} /\ remote_paths # <<>>)

\* Phase 2: the batched remote stat, when modification times are compared.
BatchStat(i) ==
  /\ At(i, "batch_stat")
  /\ LET use == /\ ~self[i].force_action
                /\ ~host_config(i).skip_stat_check
                /\ self[i].stat_available
         remote_paths == [n \in DOMAIN main[i].file_info_list |->
                            main[i].file_info_list[n].remote_path]
     IN IF use
          THEN \E ok \in Answers :
                 LET m == get_batch_remote_mtimes(i, remote_paths, ok) IN
                 /\ main' = [main EXCEPT ![i].remote_mtimes = m,
                                         ![i].use_batch_stat = batch_result_usable(m, remote_paths),
                                         ![i].batch_rc = Some(ok),
                                         ![i].pc = "compare"]
                 /\ Charge(~ok)
          ELSE /\ main' = [main EXCEPT ![i].remote_mtimes = <<>>,
                                       ![i].use_batch_stat = FALSE,
                                       ![i].pc = "compare"]
               /\ UNCHANGED faults
  /\ UNCHANGED <<self, hostname, xml_content, procs, lfs, lrun, vx, remote, cmds, run>>

\* Phase 3, the unconditional branch taken only for --force and skip_stat_check.
sync_everything_with_stat_only(i) ==
  self[i].force_action \/ host_config(i).skip_stat_check

\* Phase 3, the test of each branch: unconditional, batched, per-file.
sync_everything(i) ==
  self[i].force_action \/ host_config(i).skip_stat_check \/ ~self[i].stat_available
\* The batched test, were equal times taken for a change.
batch_needs_sync_or_equal(local_mtime, remote_mtime) == local_mtime >= remote_mtime

batch_needs_sync(local_mtime, remote_mtime) == local_mtime > remote_mtime

\* The per-file test, were equal times taken for a change.
fallback_needs_sync_or_equal(local_mtime, remote_mtime) == local_mtime >= remote_mtime

fallback_needs_sync(local_mtime, remote_mtime) == local_mtime > remote_mtime

\* The remote modification time the loop reads for fi: from the batch result, or
\* by a query of its own (ok: the query worked).
RemoteMtimeRead(i, fi, ok) ==
  IF main[i].use_batch_stat THEN Get(main[i].remote_mtimes, fi.remote_path, 0)
  ELSE get_file_mtime_remote(i, fi.remote_path, ok)

needs_sync(i, l, r) ==
  IF main[i].use_batch_stat THEN batch_needs_sync(l, r)
  ELSE fallback_needs_sync(l, r)

\* Phase 3, were every candidate VM's configuration synced.
vms_needing_sync_all(fil, pick) == {fil[n].vm_name : n \in DOMAIN fil}

\* Phase 3: the VMs that own a file put in the sync lists.
vms_needing_sync(fil, pick) == {fil[n].vm_name : n \in {m \in DOMAIN fil : pick[m]}}

\* Phase 3: compare and build disk_files, nvram_files and vms_to_sync.
Compare(i) ==
  /\ At(i, "compare")
  /\ \E ok \in [DOMAIN main[i].file_info_list -> Answers] :
       LET fil == main[i].file_info_list
           queried == ~sync_everything(i) /\ ~main[i].use_batch_stat
           all == sync_everything(i)
           l == IF all THEN <<>>
                ELSE [n \in DOMAIN fil |-> get_file_mtime_local(fil[n].local_path)]
           r == IF all THEN <<>>
                ELSE [n \in DOMAIN fil |-> RemoteMtimeRead(i, fil[n], ok[n])]
           pick == [n \in DOMAIN fil |-> all \/ needs_sync(i, l[n], r[n])]
           Paths(kind) ==
             LET RECURSIVE P(_)
                 P(n) == IF n > Len(fil) THEN <<>>
                         ELSE (IF pick[n] /\ fil[n].file_type = kind
                                 THEN <<fil[n].local_path>> ELSE <<>>) \o P(n + 1)
             IN P(1)
       IN /\ (\E n \in DOMAIN fil : ~ok[n]) => queried
          /\ main' = [main EXCEPT ![i].local_mtime = l,
                                  ![i].remote_mtime = r,
                                  ![i].stat_queries =
                                     IF queried THEN [n \in DOMAIN fil |-> fil[n].remote_path]
                                     ELSE <<>>,
                                  ![i].disk_files = Paths("disk"),
                                  ![i].nvram_files = Paths("nvram"),
                                  ![i].vms_to_sync = vms_needing_sync(fil, pick),
                                  ![i].pc = "phase4"]
          /\ Charge(\E n \in DOMAIN fil : ~ok[n])
  /\ Log(i, "resolve")
  /\ UNCHANGED <<self, hostname, xml_content, procs, lfs, lrun, vx, remote, run>>

\* ------------------------------------------------------- snapshot creation
LogSeq(i, tags) == cmds' = [cmds EXCEPT ![i] = @ \o tags]

\* main(), were a failed create_vxfs_snapshot the end of the pass.
AfterCreate_or_abort(i, frame, result) ==
  IF result = None
    THEN [Raised(frame, "CalledProcessError") EXCEPT !.snapshot_info = None, !.pc = "finally"]
    ELSE [frame EXCEPT !.snapshot_info = result, !.active_snapshot_info = result,
                       !.pc = "finalize"]

\* main(), after create_vxfs_snapshot returned `result`: the handle becomes the
\* active one.
AfterCreate(i, frame, result) ==
  IF result = None
    THEN [frame EXCEPT !.snapshot_info = None, !.pc = "finalize"]
    ELSE [frame EXCEPT !.snapshot_info = result, !.active_snapshot_info = result,
                       !.pc = "finalize"]

\* main(), end of phase 4: with a new snapshot, df (ok: it worked) and the sync
\* lists redirected into the snapshot mount; then the final lists.
Finalize(i) ==
  /\ At(i, "finalize")
  /\ \E ok \in Answers :
       LET redirect(q) == [n \in DOMAIN q |-> replace(q[n], KvmFsMnt, VxsnapMnt)]
           update == main[i].snapshot_info # None /\ ~self[i].debug
       IN /\ ~ok => update
          /\ IF ok
               THEN /\ main' = [main EXCEPT
                          ![i].kvm_fs_mnt = IF update THEN Some(KvmFsMnt) ELSE @,
                          ![i].disk_files = IF update THEN redirect(@) ELSE @,
                          ![i].nvram_files = IF update THEN redirect(@) ELSE @,
                          ![i].pc = "disk_sync"]
                    /\ Log(i, "finalize")
               ELSE /\ main' = [main EXCEPT ![i] =
                                  [Raised(@, "CalledProcessError") EXCEPT !.pc = "finally"]]
                    /\ UNCHANGED cmds
          /\ Charge(~ok)
  /\ UNCHANGED <<self, hostname, xml_content, procs, lfs, lrun, vx, remote, run>>

\* Phase 4, were the snapshot switch of the run not consulted.
snapshot_wanted_though_disabled(i) ==
  /\ main[i].disk_files # <<>> \/ main[i].nvram_files # <<>>
  /\ main[i].existing_snapshot_info = None

\* Phase 4: whether create_vxfs_snapshot is called.
snapshot_wanted(i) ==
  /\ main[i].disk_files # <<>> \/ main[i].nvram_files # <<>>
  /\ main[i].existing_snapshot_info = None
  /\ self[i].vxfs_snapshots

\* Phase 4 and the head of create_vxfs_snapshot: None when df or findmnt of the
\* live file system fails (ok: they worked) or it is no vxfs; debug: the handle,
\* nothing created.
Phase4(i) ==
  /\ At(i, "phase4")
  /\ IF ~snapshot_wanted(i)
       THEN /\ main' = [main EXCEPT ![i].pc = "finalize"]
            /\ UNCHANGED <<cmds, faults>>
       ELSE \E ok \in Answers :
              /\ main' = [main EXCEPT ![i] =
                    IF ~ok \/ ~vx.vxfs THEN AfterCreate(i, @, None)
                    ELSE IF self[i].debug THEN AfterCreate(i, @, Some(SnapshotHandle))
                    ELSE [@ EXCEPT !.pc = "cr_prepare"]]
              /\ Log(i, "snapshot")
              /\ Charge(~ok)
  /\ UNCHANGED <<self, hostname, xml_content, procs, lfs, lrun, vx, remote, run>>

\* vxsnap prepare (check=False): an already prepared volume is no error.
CrPrepare(i) ==
  /\ At(i, "cr_prepare")
  /\ \E ok \in Answers :
       /\ vx' = [vx EXCEPT !.prepared = @ \/ ok]
       /\ Charge(~ok)
  /\ main' = [main EXCEPT ![i].pc = "cr_make"]
  /\ UNCHANGED <<self, hostname, xml_content, procs, lfs, lrun, remote, cmds, run>>

\* vxsnap make (check=False): makes the snapshot volume unless it exists.
CrMake(i) ==
  /\ At(i, "cr_make")
  /\ \E ok \in Answers :
       /\ vx' = IF ok /\ vx.prepared /\ vx.volumes = 0
                  THEN [vx EXCEPT !.volumes = 1, !.torn = {}] ELSE vx
       /\ Charge(~ok)
  /\ main' = [main EXCEPT ![i].pc = "cr_findmnt"]
  /\ UNCHANGED <<self, hostname, xml_content, procs, lfs, lrun, remote, cmds, run>>

\* makedirs, then findmnt: an already mounted snapshot is returned as it is.
CrFindmnt(i) ==
  /\ At(i, "cr_findmnt")
  /\ IF findmnt_vxfs
       THEN main' = [main EXCEPT ![i] = AfterCreate(i, @, Some(SnapshotHandle))]
       ELSE main' = [main EXCEPT ![i].pc = "cr_mount"]
  /\ UNCHANGED <<self, hostname, xml_content, procs, lfs, lrun, vx, remote, cmds, run, faults>>

\* mount -t vxfs: works when the volume exists and is not mounted yet.
mount_works(ok) == ok /\ vx.volumes > 0 /\ vx.mounts = 0

CrMount(i) ==
  /\ At(i, "cr_mount")
  /\ \E ok \in Answers :
       /\ IF mount_works(ok)
            THEN /\ vx' = [vx EXCEPT !.mounts = @ + 1]
                 /\ main' = [main EXCEPT ![i] = AfterCreate(i, @, Some(SnapshotHandle))]
            ELSE /\ main' = [main EXCEPT ![i].pc = "cr_recheck"]
                 /\ UNCHANGED vx
       /\ Charge(~ok)
  /\ UNCHANGED <<self, hostname, xml_content, procs, lfs, lrun, remote, cmds, run>>

\* After a failed mount: the handle when findmnt now finds the mount, else the
\* error is raised and create_vxfs_snapshot returns None.
\* The re-check left out: a failed mount always reports failure.
mount_failure_is_final == None

recheck_after_mount_failure == IF findmnt_vxfs THEN Some(SnapshotHandle) ELSE None

CrRecheck(i) ==
  /\ At(i, "cr_recheck")
  /\ main' = [main EXCEPT ![i] = AfterCreate(i, @, recheck_after_mount_failure)]
  /\ Log(i, "recheck")
  /\ UNCHANGED <<self, hostname, xml_content, procs, lfs, lrun, vx, remote, run, faults>>

\* ------------------------------------------------------------- transfers
\* A spawned rsync: what it copies, the source indices it could open, and
\* whether it holds files of the snapshot mount open.
Child(cmd, paths) ==
  [cmd |-> cmd,
   readable |-> {n \in DOMAIN paths : os_path_exists(paths[n])},
   snap |-> \E n \in DOMAIN paths : paths[n].mnt = VxsnapMnt /\ os_path_exists(paths[n])]

\* The source files a finished rsync can have copied: all it could open, or
\* fewer when it failed.
Sent(readable) == IF faults > 0 THEN SUBSET readable ELSE {readable}

\* rsync, were --dry-run not appended in debug mode.
dry_run_for_test_only(i) == self[i].test_only

\* rsync runs without writing: --dry-run (debug) or -n (test).
dry_run(i) == self[i].debug \/ self[i].test_only

\* rsync -a of the source files `paths` (indices in `sent`) to the destination:
\* the copy takes the source's modification time; -u keeps a newer copy.
rsync_files(i, paths, sent) ==
  IF dry_run(i) THEN remote[i].files
  ELSE [b \in Bases |->
          IF \E n \in sent : paths[n].base = b
            THEN IF self[i].update_only /\ remote[i].files[b] > lfs[b]
                   THEN remote[i].files[b] ELSE lfs[b]
            ELSE remote[i].files[b]]

\* The files the destination has been sent so far.
rsync_received(i, paths, sent) ==
  IF dry_run(i) THEN remote[i].received
  ELSE remote[i].received \cup {paths[n].base : n \in sent}

\* sync_files_parallel: spawn the fan-out for disk_files.
DiskStart(i) ==
  /\ At(i, "disk_sync")
  /\ IF main[i].disk_files = <<>>
       THEN /\ main' = [main EXCEPT ![i].pc = "nvram_sync", ![i].k = 1]
            /\ UNCHANGED <<self, cmds>>
       ELSE /\ self' = [self EXCEPT ![i].child_processes = {Child("disk", main[i].disk_files)}]
            /\ main' = [main EXCEPT ![i].pc = "disk_wait"]
            /\ Log(i, "disk")
  /\ UNCHANGED <<hostname, xml_content, procs, lfs, lrun, vx, remote, run, faults>>

\* main(), were a failed disk transfer the end of the pass.
after_disk_sync_or_stop(frame, ok) ==
  IF ok THEN [frame EXCEPT !.pc = "nvram_sync", !.k = 1]
  ELSE [frame EXCEPT !.success = FALSE, !.pc = "finally"]

\* main(): sync_files_parallel returned ok; a failure only clears success.
after_disk_sync(frame, ok) ==
  [frame EXCEPT !.success = @ /\ ok, !.pc = "nvram_sync", !.k = 1]

\* sync_files_parallel: the fan-out ends; any failed transfer fails the call.
DiskFinish(i) ==
  /\ At(i, "disk_wait")
  /\ \E c \in self[i].child_processes : \E sent \in Sent(c.readable) :
       /\ remote' = [remote EXCEPT ![i].files = rsync_files(i, main[i].disk_files, sent),
                                   ![i].received = rsync_received(i, main[i].disk_files, sent)]
       /\ main' = [main EXCEPT ![i] = after_disk_sync(@, sent = DOMAIN main[i].disk_files)]
       /\ Charge(sent # c.readable)
  /\ self' = [self EXCEPT ![i].child_processes = {}]
  /\ UNCHANGED <<hostname, xml_content, procs, lfs, lrun, vx, cmds, run>>

\* sync_file for the k-th NVRAM file: spawn.
NvramStart(i) ==
  /\ At(i, "nvram_sync")
  /\ IF main[i].k > Len(main[i].nvram_files)
       THEN /\ main' = [main EXCEPT ![i].pc = "xml_sync"]
            /\ UNCHANGED <<self, cmds>>
       ELSE /\ self' = [self EXCEPT ![i].child_processes =
                           {Child("nvram", <<main[i].nvram_files[main[i].k]>>)}]
            /\ main' = [main EXCEPT ![i].pc = "nvram_wait"]
            /\ Log(i, "nvram")
  /\ UNCHANGED <<hostname, xml_content, procs, lfs, lrun, vx, remote, run, faults>>

NvramFinish(i) ==
  /\ At(i, "nvram_wait")
  /\ \E c \in self[i].child_processes : \E sent \in Sent(c.readable) :
       /\ remote' = [remote EXCEPT
             ![i].files = rsync_files(i, <<main[i].nvram_files[main[i].k]>>, sent),
             ![i].received = rsync_received(i, <<main[i].nvram_files[main[i].k]>>, sent)]
       /\ main' = [main EXCEPT ![i].success = @ /\ (sent = {1}),
                               ![i].pc = "nvram_sync", ![i].k = @ + 1]
       /\ Charge(sent # c.readable)
  /\ self' = [self EXCEPT ![i].child_processes = {}]
  /\ UNCHANGED <<hostname, xml_content, procs, lfs, lrun, vx, cmds, run>>

\* sync_vm_configs, phase 1: one rsync of the configuration documents.
XmlStart(i) ==
  /\ At(i, "xml_sync")
  /\ IF main[i].vms_to_sync = {}
       THEN /\ main' = [main EXCEPT ![i].pc = "tools"]
            /\ UNCHANGED <<self, cmds>>
       ELSE /\ self' = [self EXCEPT ![i].child_processes =
                           {[cmd |-> "xml", readable |-> {}, snap |-> FALSE]}]
            /\ main' = [main EXCEPT ![i].pc = "xml_wait"]
            /\ Log(i, "xml")
  /\ UNCHANGED <<hostname, xml_content, procs, lfs, lrun, vx, remote, run, faults>>

XmlFinish(i) ==
  /\ At(i, "xml_wait")
  /\ \E ok \in Answers :
       /\ IF ok
            THEN /\ remote' = [remote EXCEPT ![i].xml =
                      IF self[i].debug THEN @ ELSE @ \cup main[i].vms_to_sync]
                 /\ main' = [main EXCEPT ![i].pc = "define"]
            ELSE /\ main' = [main EXCEPT ![i].success = FALSE, ![i].pc = "tools"]
                 /\ UNCHANGED remote
       /\ Charge(~ok)
  /\ self' = [self EXCEPT ![i].child_processes = {}]
  /\ UNCHANGED <<hostname, xml_content, procs, lfs, lrun, vx, cmds, run>>

\* The batch script of sync_vm_configs before any VM: nothing done, no output.
NoBatch == [normalised |-> {}, defined |-> {}, templates |-> {}, lines |-> <<>>, failed |-> <<>>]

\* The batch script, were it to end at the first definition that fails.
RECURSIVE define_batch_until_failure(_, _)
define_batch_until_failure(vm_names, fails) ==
  IF vm_names = <<>> THEN NoBatch
  ELSE LET vm == vm_names[1]
           rest == IF vm \in fails THEN NoBatch
                   ELSE define_batch_until_failure(Tail(vm_names), fails)
       IN [normalised |-> {vm} \cup rest.normalised,
           defined |-> (IF vm \in fails THEN {} ELSE {vm}) \cup rest.defined,
           templates |-> (IF vm \in fails THEN {} ELSE {vm}) \cup rest.templates,
           lines |-> <<IF vm \in fails THEN <<"FAILED", vm>> ELSE <<"OK", vm>> >> \o rest.lines,
           failed |-> (IF vm \in fails THEN <<vm>> ELSE <<>>) \o rest.failed]

\* The batch script of sync_vm_configs for vm_names, in order: sed, then virsh
\* define (it fails for the VMs in fails); on success cp to the templates
\* directory and "OK: vm", else "FAILED: vm" and the VM joins $failed.
RECURSIVE define_batch(_, _)
define_batch(vm_names, fails) ==
  IF vm_names = <<>> THEN NoBatch
  ELSE LET vm == vm_names[1]
           rest == define_batch(Tail(vm_names), fails)
       IN [normalised |-> {vm} \cup rest.normalised,
           defined |-> (IF vm \in fails THEN {} ELSE {vm}) \cup rest.defined,
           templates |-> (IF vm \in fails THEN {} ELSE {vm}) \cup rest.templates,
           lines |-> <<IF vm \in fails THEN <<"FAILED", vm>> ELSE <<"OK", vm>> >> \o rest.lines,
           failed |-> (IF vm \in fails THEN <<vm>> ELSE <<>>) \o rest.failed]

\* What run_ssh_command gives for the batch: its output and exit status; 255
\* and no output when the script never ran on the destination (ran = FALSE).
batch_result(ran, batch) ==
  [stdout |-> IF ran THEN batch.lines ELSE <<>>,
   returncode |-> IF ~ran THEN 255 ELSE IF batch.failed = <<>> THEN 0 ELSE 1]

\* sync_vm_configs: its return value from the batch's output and exit status.
sync_vm_configs_result(result) ==
  /\ \A n \in DOMAIN result.stdout : result.stdout[n][1] # "FAILED"
  /\ result.returncode = 0

\* sync_vm_configs, phase 2: one remote script normalises, defines and archives
\* each document; defined_ok are the VMs whose definition works when tried.
Define(i) ==
  /\ At(i, "define")
  /\ IF host_config(i).skip_define \/ self[i].debug
       THEN /\ main' = [main EXCEPT ![i].pc = "tools"]
            /\ UNCHANGED <<remote, cmds, faults>>
       ELSE \E ran \in Answers, defined_ok \in Sent(main[i].vms_to_sync) :
              LET vm_names == SelectSeq(VmOrder, LAMBDA vm : vm \in main[i].vms_to_sync)
                  fails == main[i].vms_to_sync \ defined_ok
                  batch == IF ran THEN define_batch(vm_names, fails) ELSE NoBatch
                  result == batch_result(ran, batch)
                  returned == sync_vm_configs_result(result)
              IN /\ ~ran => fails = {}
                 /\ Charge(~ran \/ fails # {})
                 /\ remote' = [remote EXCEPT ![i].defined = @ \cup batch.defined,
                                             ![i].templates = @ \cup batch.templates,
                                             ![i].normalised = @ \cup batch.normalised]
                 /\ main' = [main EXCEPT
                       ![i].success = @ /\ returned,
                       ![i].define = Some([ran |-> ran, fails |-> fails, result |-> result,
                                           returned |-> returned]),
                       ![i].pc = "tools"]
                 /\ Log(i, "define")
  /\ UNCHANGED <<self, hostname, xml_content, procs, lfs, lrun, vx, run>>

\* main(): copy the tool's own directory to scripts/ on the destination.
ToolsStart(i) ==
  /\ At(i, "tools")
  /\ IF self[i].debug
       THEN /\ main' = [main EXCEPT ![i].pc = "finally"]
            /\ UNCHANGED <<self, cmds>>
       ELSE /\ self' = [self EXCEPT ![i].child_processes =
                           {[cmd |-> "tools", readable |-> {}, snap |-> FALSE]}]
            /\ main' = [main EXCEPT ![i].pc = "tools_wait"]
            /\ Log(i, "tools")
  /\ UNCHANGED <<hostname, xml_content, procs, lfs, lrun, vx, remote, run, faults>>

ToolsFinish(i) ==
  /\ At(i, "tools_wait")
  /\ \E ok \in Answers :
       /\ remote' = [remote EXCEPT ![i].scripts = @ \/ ok]
       /\ main' = [main EXCEPT ![i].success = @ /\ ok, ![i].pc = "finally"]
       /\ Charge(~ok)
  /\ self' = [self EXCEPT ![i].child_processes = {}]
  /\ UNCHANGED <<hostname, xml_content, procs, lfs, lrun, vx, cmds, run>>

\* KeyboardInterrupt while a transfer child runs: the handler of the sync
\* function calls cleanup_child_processes and re-raises; part of a disk fan-out
\* may already have arrived.
cleanup_child_processes(i) == {}

\* The handler, were the interrupt taken for a failed transfer: the pass goes
\* on with the next stage.
interrupted_goes_on(frame) ==
  [frame EXCEPT !.success = FALSE,
                !.pc = CASE frame.pc = "disk_wait" -> "nvram_sync"
                         [] frame.pc = "nvram_wait" -> "xml_sync"
                         [] frame.pc = "xml_wait" -> "tools"
                         [] OTHER -> "finally"]

\* except KeyboardInterrupt in sync_files_parallel, sync_file, sync_vm_configs
\* and the tools copy: re-raised, so the pass is left through its finally block.
interrupted(frame) == [frame EXCEPT !.exc = Some("KeyboardInterrupt"), !.pc = "finally"]

\* cleanup_child_processes: what is left running of the tracked children.  The
\* descendants are sent SIGTERM, then the child; only the child is waited for,
\* and SIGKILL follows for all only when the child outlives the grace period.
\* child_exits, descendants_exit: they end on SIGTERM within that time.
survivors(children, child_exits, descendants_exit) ==
  IF child_exits /\ ~descendants_exit THEN children ELSE {}

Interrupt(i) ==
  /\ main[i].pc \in {"disk_wait", "nvram_wait", "xml_wait", "tools_wait"}
  /\ faults > 0
  /\ Charge(TRUE)
  /\ \E child_exits, descendants_exit \in BOOLEAN :
       procs' = [procs EXCEPT ![i] =
                   @ \cup survivors(self[i].child_processes, child_exits, descendants_exit)]
  /\ \E c \in self[i].child_processes :
       \E sent \in SUBSET (IF c.cmd = "disk" THEN c.readable ELSE {}) :
          remote' = [remote EXCEPT ![i].files = rsync_files(i, main[i].disk_files, sent),
                                   ![i].received = rsync_received(i, main[i].disk_files, sent)]
  /\ self' = [self EXCEPT ![i].child_processes = cleanup_child_processes(i)]
  /\ main' = [main EXCEPT ![i] = interrupted(@)]
  /\ Log(i, "interrupt")
  /\ UNCHANGED <<hostname, xml_content, lfs, lrun, vx, run>>

\* The processes that outlived the cleanup end on the SIGTERM they were sent.
Reap(i) ==
  /\ procs[i] # {}
  /\ procs' = [procs EXCEPT ![i] = {}]
  /\ UNCHANGED <<self, main, hostname, xml_content, lfs, lrun, vx, remote, cmds, run, faults>>

\* ------------------------------------------- machine-type normalisation
\* Text is a sequence of characters.  The characters of [a-zA-Z0-9._-] that
\* occur in the documents below; the quote and the blank are outside the class.
SuffixClass == {"p", "c", "q", "i", "f", "x", "m", "r", "0", "2", "3", "4", "5", "8", "9",
                ".", "_", "-"}
I440FX_PREFIX == <<"p", "c", "-", "i", "4", "4", "0", "f", "x", "-">>
Q35_PREFIX == <<"p", "c", "-", "q", "3", "5", "-">>

startswith(text, prefix) ==
  Len(text) >= Len(prefix) /\ SubSeq(text, 1, Len(prefix)) = prefix

\* The length of the longest run of class characters text starts with.
RECURSIVE span(_)
span(text) ==
  IF text # <<>> /\ text[1] \in SuffixClass THEN 1 + span(Tail(text)) ELSE 0

\* The substitution, were only the prefix replaced and the suffix kept.
RECURSIVE sub_prefix_only(_, _, _)
sub_prefix_only(prefix, repl, text) ==
  IF text = <<>> THEN <<>>
  ELSE IF startswith(text, prefix)
         THEN repl \o sub_prefix_only(prefix, repl, SubSeq(text, Len(prefix) + 1, Len(text)))
         ELSE <<text[1]>> \o sub_prefix_only(prefix, repl, Tail(text))

\* re.sub(prefix + '[a-zA-Z0-9._-]*', repl, text), and sed's s@...@repl@g:
\* every leftmost, longest, non-overlapping match is replaced.
RECURSIVE sub(_, _, _)
sub(prefix, repl, text) ==
  IF text = <<>> THEN <<>>
  ELSE IF startswith(text, prefix)
         THEN LET rest == SubSeq(text, Len(prefix) + 1, Len(text))
              IN repl \o sub(prefix, repl, SubSeq(rest, span(rest) + 1, Len(rest)))
         ELSE <<text[1]>> \o sub(prefix, repl, Tail(text))

\* The normalisation, were the pc-q35-* strings left as they are.
normalize_xml_i440fx_only(xml_content_) == sub(I440FX_PREFIX, <<"p", "c">>, xml_content_)

\* normalize_xml_content: the pc-i440fx-* strings first, then the pc-q35-* ones.
normalize_xml_content(xml_content_) ==
  sub(Q35_PREFIX, <<"q", "3", "5">>, sub(I440FX_PREFIX, <<"p", "c">>, xml_content_))

\* A document is text, a machine type and text: a machine-type string
\* (pc-i440fx-<suffix>, pc-q35-<suffix>), the normalised word (pc, q35) or
\* nothing.
DocParts ==
  LET before == {<<>>, <<"m", "4", "'">>, <<"m", "8", "'">>, <<"p", "c", "'">>}
      after == {<<>>, <<"'">>, <<"'", "m", "4">>, <<"'", "p", "c", "'">>}
      suffix == {<<>>, <<"8", ".", "2">>, <<"r", "9", ".", "2">>}
  IN [before : before, kind : {"i440fx", "q35"}, suffix : suffix, after : after]
     \cup [before : before, kind : {"pc", "q35_word", "none"}, suffix : {<<>>},
            after : after]
document(p) ==
  LET machine == CASE p.kind = "i440fx" -> I440FX_PREFIX \o p.suffix
                   [] p.kind = "q35" -> Q35_PREFIX \o p.suffix
                   [] p.kind = "pc" -> <<"p", "c">>
                   [] p.kind = "q35_word" -> <<"q", "3", "5">>
                   [] OTHER -> <<>>
  IN p.before \o machine \o p.after

\* Two documents are normalised, as the source's and the destination's copy
\* of a configuration are.
Normalize ==
  /\ xml_content.n = 0 /\ xml_content.src # <<>>
  /\ xml_content' = [xml_content EXCEPT
        !.out = <<normalize_xml_content(xml_content.src[1]),
                  normalize_xml_content(xml_content.src[2])>>,
        !.n = 1]
  /\ UNCHANGED <<self, main, hostname, procs, lfs, lrun, vx, remote, cmds, run, faults>>

\* The normalised documents are normalised again, as sed -i does on the
\* destination with every sync.
NormalizeAgain ==
  /\ xml_content.n = 1
  /\ xml_content' = [xml_content EXCEPT
        !.again = <<normalize_xml_content(xml_content.out[1]),
                    normalize_xml_content(xml_content.out[2])>>,
        !.n = 2]
  /\ UNCHANGED <<self, main, hostname, procs, lfs, lrun, vx, remote, cmds, run, faults>>

NextNorm == Normalize \/ NormalizeAgain

\* ------------------------------------------------ snapshot release, exit
\* Some transfer child of some instance holds files of the snapshot mount open.
MountBusy == \E j \in Inst : \E c \in self[j].child_processes \cup procs[j] : c.snap

\* main(), the finally block of the pass, and the head of destroy_vxfs_snapshot
\* (debug: nothing is done).
Finally(i) ==
  /\ At(i, "finally")
  /\ IF main[i].active_snapshot_info = None
       THEN /\ main' = [main EXCEPT ![i].pc = "after_pass"]
            /\ UNCHANGED cmds
       ELSE /\ main' = [main EXCEPT ![i].pc = IF self[i].debug THEN "after_pass"
                                                              ELSE "ds_findmnt"]
            /\ Log(i, "destroy")
  /\ UNCHANGED <<self, hostname, xml_content, procs, lfs, lrun, vx, remote, run, faults>>

\* destroy_vxfs_snapshot: findmnt; nothing to clean up when not mounted.
DsFindmnt(i) ==
  /\ At(i, "ds_findmnt")
  /\ main' = [main EXCEPT ![i].pc = IF findmnt_vxfs THEN "ds_umount" ELSE "after_pass"]
  /\ UNCHANGED <<self, hostname, xml_content, procs, lfs, lrun, vx, remote, cmds, run, faults>>

\* umount: works when the mount is there and no process holds a file of it.
umount_works == vx.mounts > 0 /\ ~MountBusy

\* destroy_vxfs_snapshot: after umount, tear down only when it worked.
after_umount(rc_ok) == IF rc_ok THEN "ds_dis" ELSE "after_pass"

DsUmount(i) ==
  /\ At(i, "ds_umount")
  /\ LET rc_ok == umount_works IN
     /\ vx' = IF rc_ok THEN [vx EXCEPT !.mounts = @ - 1] ELSE vx
     /\ main' = [main EXCEPT ![i].rc = Some(rc_ok), ![i].pc = after_umount(rc_ok)]
     /\ Log(i, IF rc_ok THEN "umount" ELSE "umount_failed")
  /\ UNCHANGED <<self, hostname, xml_content, procs, lfs, lrun, remote, run, faults>>

\* vxsnap dis (check=True): an error ends the teardown (logged, not raised on).
DsDis(i) ==
  /\ At(i, "ds_dis")
  /\ \E ok \in Answers :
       LET works == ok /\ vx.volumes > 0 IN
       /\ Charge(~ok)
       /\ vx' = [vx EXCEPT !.torn = @ \cup {i}]
       /\ main' = [main EXCEPT ![i].pc = IF works THEN "ds_rm" ELSE "after_pass"]
  /\ Log(i, "dis")
  /\ UNCHANGED <<self, hostname, xml_content, procs, lfs, lrun, remote, run>>

\* vxedit -fr rm: removes the snapshot volume.
DsRm(i) ==
  /\ At(i, "ds_rm")
  /\ \E ok \in Answers :
       LET works == ok /\ vx.volumes > 0 /\ vx.mounts = 0 IN
       /\ Charge(~ok)
       /\ vx' = IF works THEN [vx EXCEPT !.volumes = @ - 1] ELSE vx
       /\ main' = [main EXCEPT ![i].pc = IF works THEN "ds_unprepare" ELSE "after_pass"]
  /\ UNCHANGED <<self, hostname, xml_content, procs, lfs, lrun, remote, cmds, run>>

\* vxsnap unprepare: works when no snapshot of the volume is left.
DsUnprepare(i) ==
  /\ At(i, "ds_unprepare")
  /\ \E ok \in Answers :
       /\ vx' = IF ok /\ vx.volumes = 0 THEN [vx EXCEPT !.prepared = FALSE] ELSE vx
       /\ Charge(~ok)
  /\ main' = [main EXCEPT ![i].pc = "after_pass"]
  /\ UNCHANGED <<self, hostname, xml_content, procs, lfs, lrun, remote, cmds, run>>

\* The pass is left: a pending KeyboardInterrupt reaches the handler of
\* __main__ (exit 130), another exception its last handler (exit 1), otherwise
\* the loop over the source directories ends.
AfterPass(i) ==
  /\ At(i, "after_pass")
  /\ IF main[i].exc = Some("KeyboardInterrupt")
       THEN /\ main' = [main EXCEPT ![i] = Exited(@, 130)]
            /\ self' = [self EXCEPT ![i].child_processes = cleanup_child_processes(i)]
       ELSE IF main[i].exc # None
         THEN /\ main' = [main EXCEPT ![i] = Exited(@, 1)]
              /\ UNCHANGED self
         ELSE /\ main' = [main EXCEPT ![i].pc = "poweroff"]
              /\ UNCHANGED self
  /\ UNCHANGED <<hostname, xml_content, procs, lfs, lrun, vx, remote, cmds, run, faults>>

\* main(), were its return value 0 whatever failed.
return_code_always_zero(success) == 0

\* main(): return 0 if success else 1.
return_code(success) == IF success THEN 0 ELSE 1

\* main(): the poweroff option, then the exit code from the failure flag.
Poweroff(i) ==
  /\ At(i, "poweroff")
  /\ IF self[i].poweroff /\ ~self[i].debug
       THEN /\ LogSeq(i, <<"hastop", "poweroff">>)
            /\ \E ok \in Answers : remote' = [remote EXCEPT ![i].down = ok] /\ Charge(~ok)
       ELSE UNCHANGED <<cmds, remote, faults>>
  /\ main' = [main EXCEPT ![i] = Exited(@, return_code(@.success))]
  /\ UNCHANGED <<self, hostname, xml_content, procs, lfs, lrun, vx, run>>

\* The tool is started again with the same command line.
Rerun(i) ==
  /\ At(i, "exit")
  /\ Len(run[i]) + 1 < MaxRuns
  /\ run' = [run EXCEPT ![i] = Append(@, The(main[i].exit_code))]
  /\ self' = [self EXCEPT ![i] = NewReplicator]
  /\ main' = [main EXCEPT ![i] = NewFrame(@.args, "parse_args")]
  /\ cmds' = [cmds EXCEPT ![i] = <<>>]
  /\ UNCHANGED <<hostname, xml_content, procs, lfs, lrun, vx, remote, faults>>

Step(i) ==
  \/ ParseArgs(i) \/ DetermineHost(i) \/ SetupHostConfig(i) \/ TestSsh(i)
  \/ Prefetch(i) \/ TestStat(i) \/ CheckMounts(i) \/ ProcessVmList(i)
  \/ PassBegin(i) \/ Collect(i) \/ BatchStat(i) \/ Compare(i)
  \/ Phase4(i) \/ Finalize(i) \/ CrPrepare(i) \/ CrMake(i) \/ CrFindmnt(i) \/ CrMount(i) \/ CrRecheck(i)
  \/ DiskStart(i) \/ DiskFinish(i) \/ NvramStart(i) \/ NvramFinish(i)
  \/ XmlStart(i) \/ XmlFinish(i) \/ Define(i) \/ ToolsStart(i) \/ ToolsFinish(i)
  \/ Interrupt(i) \/ Reap(i)
  \/ Finally(i) \/ DsFindmnt(i) \/ DsUmount(i) \/ DsDis(i) \/ DsRm(i) \/ DsUnprepare(i)
  \/ AfterPass(i) \/ Poweroff(i)

Next == \E i \in Inst : Step(i)
NextTwice == \E i \in Inst : Step(i) \/ Rerun(i)

\* ------------------------------------------------------------ specifications
Uniform(S) == {[b \in Bases |-> m] : m \in S}
\* File times that vary for the files of alpha and are t for those of beta.
AlphaVaries(S, t) ==
  {[b \in Bases |-> IF b[1] = "alpha" THEN f[b[2]] ELSE t] : f \in [Kinds -> S]}
MountedVx == [NoVx EXCEPT !.prepared = TRUE, !.volumes = 1, !.mounts = 1]

\* Spec: one instance, one run, over the command lines and hosts; the files of
\* the VMs are all missing or all up to date on the destination.
RunArgs ==
  {a \in AllArgs : /\ ~a.test /\ ~a.update /\ ~a.poweroff
                   /\ a.skip_stat_check => a.host \in TableHosts
                   /\ a.host # "" => a.script = DefaultScript
                   /\ a.host \in {"", "nowhere", "palanthas", "daltigoth", "kalaman", "elsewhere"}
                   /\ a.vm_list \in {{"alpha"}, {"ghost"}}}
Init ==
  InitWith({1}, {"palanthas", "thorbardin"}, RunArgs, Uniform({MaxMtime}), {{}, {"alpha"}},
           {NoVx, MountedVx, [NoVx EXCEPT !.vxfs = FALSE]},
           Uniform({0, MaxMtime}), {{}}, MaxFaults)
Spec == Init /\ [][Next]_vars

\* SpecStat: one instance, one run to a host outside the table, over the file
\* times of alpha and the running domains of both hosts.
StatArgs ==
  {a \in AllArgs : /\ a.script = DefaultScript
                   /\ ~a.debug /\ ~a.test /\ ~a.update /\ ~a.poweroff /\ ~a.novxsnap
                   /\ ~a.skip_stat_check /\ a.host = "elsewhere" /\ a.vm_list = {}}
InitStat ==
  InitWith({1}, {"palanthas"}, StatArgs, AlphaVaries(1..MaxMtime, MaxMtime),
           {{}, {"alpha"}}, {NoVx}, AlphaVaries(0..MaxMtime, 0), {{}, {"beta"}}, MaxFaults)
SpecStat == InitStat /\ [][Next]_vars

\* SpecTwice: one instance that is run again with the same command line.
TwiceArgs ==
  {a \in AllArgs : /\ a.script = DefaultScript
                   /\ ~a.update /\ ~a.poweroff /\ ~a.novxsnap
                   /\ a.host = "rh8x64" /\ a.vm_list = {"alpha"}}
InitTwice ==
  InitWith({1}, {"palanthas"}, TwiceArgs, Uniform({1}), {{}}, {NoVx},
           AlphaVaries(0..MaxMtime, 0), {{}}, MaxFaults)
SpecTwice == InitTwice /\ [][NextTwice]_vars

\* SpecSnap: concurrent instances on one source host, each replicating alpha;
\* the state of the destination is kept per instance.
SnapArgs ==
  {a \in AllArgs : /\ a.script = DefaultScript
                   /\ ~a.force /\ ~a.debug /\ ~a.test /\ ~a.update /\ ~a.poweroff
                   /\ ~a.novxsnap /\ ~a.skip_stat_check
                   /\ a.host = "elsewhere" /\ a.vm_list = {"alpha"}}
InitSnap ==
  InitWith(Inst, {"palanthas"}, SnapArgs, Uniform({MaxMtime}), {{}}, {NoVx},
           Uniform({0}), {{}}, SnapFaults)
SpecSnap == InitSnap /\ [][Next]_vars

\* SpecOff: one instance, one run that replicates alpha, with and without
\* --poweroff and --debug.
OffArgs ==
  {a \in AllArgs : /\ a.script = DefaultScript
                   /\ ~a.force /\ ~a.test /\ ~a.update /\ ~a.novxsnap
                   /\ ~a.skip_stat_check /\ a.host = "elsewhere" /\ a.vm_list = {"alpha"}}
InitOff ==
  InitWith({1}, {"palanthas"}, OffArgs, Uniform({MaxMtime}), {{}}, {NoVx},
           Uniform({0}), {{}}, MaxFaults)
SpecOff == InitOff /\ [][Next]_vars

\* SpecHost: one instance, one run that replicates alpha, over the requested
\* destinations, the names of the script and the names of the source host.
HostArgs ==
  {a \in AllArgs : /\ ~a.force /\ ~a.debug /\ ~a.test /\ ~a.update /\ ~a.poweroff
                   /\ ~a.novxsnap /\ a.vm_list = {"alpha"}}
InitHost ==
  InitWith({1}, {"palanthas", "thorbardin", "kalaman", "daltigoth-228"}, HostArgs,
           Uniform({MaxMtime}), {{}}, {NoVx}, Uniform({0}), {{}}, SnapFaults)
SpecHost == InitHost /\ [][Next]_vars

\* SpecNorm: no instance runs; two documents are normalised, and normalised
\* again.
InitNorm ==
  /\ hostname = "palanthas" /\ lfs \in Uniform({0}) /\ lrun = {} /\ vx = NoVx
  /\ self = [i \in Inst |-> NewReplicator]
  /\ main = [i \in Inst |-> NewFrame(NoArgs, "off")]
  /\ remote = [i \in Inst |-> NewRemote([b \in Bases |-> 0], {})]
  /\ cmds = [i \in Inst |-> <<>>]
  /\ procs = [i \in Inst |-> {}]
  /\ run = [i \in Inst |-> <<>>]
  /\ faults = 0
  /\ \E a \in DocParts, b \in DocParts :
       xml_content = [NoXml EXCEPT !.parts = <<a, b>>, !.src = <<document(a), document(b)>>]
SpecNorm == InitNorm /\ [][NextNorm]_vars

\* ------------------------------------------------------------------ properties
\* The VM is in a prefetched running set of a run without --force.
KnownRunning(i, vm) ==
  /\ ~self[i].force_action
  /\ self[i].running_vms_local # None /\ self[i].running_vms_remote # None
  /\ vm \in The(self[i].running_vms_local) \cup The(self[i].running_vms_remote)

\* C1: without --force, a VM in the prefetched local or remote running set gets
\* no FileInfo and no place in vms_to_process, stale or not, and none of its
\* disk, firmware or configuration files is transferred in the run.
C1_RunningVmExcluded ==
  \A i \in Inst, vm \in VMs :
    KnownRunning(i, vm) =>
      /\ vm \notin main[i].vms_to_process
      /\ \A n \in DOMAIN main[i].file_info_list : main[i].file_info_list[n].vm_name # vm
      /\ \A n \in DOMAIN main[i].disk_files : main[i].disk_files[n].base[1] # vm
      /\ \A n \in DOMAIN main[i].nvram_files : main[i].nvram_files[n].base[1] # vm
      /\ vm \notin main[i].vms_to_sync
      /\ \A b \in remote[i].received : b[1] # vm
      /\ vm \notin remote[i].xml \cup remote[i].defined

\* A finished run that left out the stale VM alpha, running on the source host,
\* and transferred the disk of beta.
C1_Witness ==
  \E i \in Inst :
    /\ At(i, "exit") /\ KnownRunning(i, "alpha")
    /\ lfs[Base("alpha", "disk")] > remote[i].files[Base("alpha", "disk")]
    /\ Base("beta", "disk") \in remote[i].received

\* The stages and commands instance i has run.
Ran(i, tag) == tag \in Range(cmds[i])

\* C2: of concurrent instances that call destroy_vxfs_snapshot on one snapshot,
\* one whose umount fails leaves the volume and returns normally; only an
\* instance whose own umount succeeded tears the volume down, so the teardown
\* of a snapshot volume is run at most once, by the last instance to unmount.
C2_TeardownAtMostOnce ==
  /\ \A i \in Inst :
       main[i].rc = Some(FALSE) =>
         /\ ~Ran(i, "dis")
         /\ main[i].pc \in {"after_pass", "poweroff", "exit"}
         /\ main[i].exit_code \in {None, Some(0), Some(1), Some(130)}
  /\ \A i \in Inst : Ran(i, "dis") => main[i].rc = Some(TRUE)
  /\ Cardinality(vx.torn) <= 1

\* Two instances have each run the teardown on the same snapshot volume.
C2_TornDownTwice == Cardinality(vx.torn) = 2

\* The source paths of the transfer instance i is waiting for.
TransferPaths(i) ==
  IF At(i, "disk_wait") THEN main[i].disk_files
  ELSE IF At(i, "nvram_wait") THEN <<main[i].nvram_files[main[i].k]>>
  ELSE <<>>

\* Instance i holds a snapshot handle and has transfers from it ahead.
TransfersAhead(i) ==
  /\ main[i].active_snapshot_info # None /\ ~self[i].debug
  /\ main[i].pc \in {"collect", "batch_stat", "compare", "phase4", "finalize",
                      "disk_sync", "disk_wait", "nvram_sync", "nvram_wait"}

\* C3: while an instance that adopted the shared snapshot has transfers ahead,
\* the snapshot stays mounted (another instance's umount fails), so no transfer
\* is started or continued from a snapshot path that is no longer mounted.
C3_SnapshotOutlivesTransfers ==
  \A i \in Inst :
    /\ TransfersAhead(i) => findmnt_vxfs
    /\ (\E n \in DOMAIN TransferPaths(i) : TransferPaths(i)[n].mnt = VxsnapMnt) => findmnt_vxfs

\* An instance waits for a disk transfer from the snapshot path after another
\* instance unmounted the snapshot and removed its volume.
C3_TransferAfterRelease ==
  \E i \in Inst, j \in Inst :
    /\ i # j /\ At(i, "disk_wait") /\ Ran(j, "umount")
    /\ \E n \in DOMAIN TransferPaths(i) : TransferPaths(i)[n].mnt = VxsnapMnt
    /\ vx.mounts = 0 /\ vx.volumes = 0

\* C4: concurrent instances on one source volume never have more than one
\* snapshot volume or more than one snapshot mount; an instance that finds the
\* snapshot mounted reuses it and creates nothing, a vxsnap make for a volume
\* that exists is tolerated, and an instance whose mount fails re-checks the
\* mount and returns the shared handle when another instance mounted first.
C4_State ==
  /\ vx.volumes <= 1 /\ vx.mounts <= 1
  /\ \A i \in Inst :
       /\ main[i].existing_snapshot_info # None =>
             ~Ran(i, "snapshot") /\ main[i].active_snapshot_info = main[i].existing_snapshot_info
       /\ main[i].active_snapshot_info # None =>
             The(main[i].active_snapshot_info).vxsnap_mnt = VxsnapMnt
C4_Step ==
  \A i \in Inst :
    /\ (At(i, "cr_recheck") /\ main'[i].pc # "cr_recheck" /\ findmnt_vxfs) =>
          main'[i].snapshot_info = Some(SnapshotHandle)
    /\ (At(i, "cr_make") /\ main'[i].pc # "cr_make" /\ vx.volumes = 1) =>
          vx'.volumes = 1 /\ main'[i].pc = "cr_findmnt"
C4_OneSharedSnapshot == []C4_State /\ [][C4_Step]_vars

\* An instance whose mount failed found the mount of another instance at the
\* re-check and shares its handle.
C4_Witness ==
  \E i \in Inst, j \in Inst :
    /\ i # j /\ Ran(i, "recheck") /\ main[i].snapshot_info = Some(SnapshotHandle)
    /\ main[j].snapshot_info = Some(SnapshotHandle)
    /\ vx.mounts = 1 /\ vx.volumes = 1

\* Instance i has left the pass over the source directory.
PassLeft(i) == main[i].pc \in {"after_pass", "poweroff", "exit"}

\* C5: in every run, once a snapshot handle is active for the source directory
\* (discovered or created), destroy_vxfs_snapshot has been invoked for it when
\* the run leaves that directory's pass: after success, after a failed
\* transfer, with an empty candidate list, and after an interrupt.
C5_DestroyAlwaysInvoked ==
  \A i \in Inst :
    (PassLeft(i) /\ main[i].active_snapshot_info # None) => Ran(i, "destroy")

\* The run ended on the df after check_existing_snapshot, with the discovered
\* handle active and destroy_vxfs_snapshot never invoked.
C5_LeftWithoutDestroy ==
  \E i \in Inst :
    /\ At(i, "exit") /\ main[i].exit_code = Some(1)
    /\ main[i].existing_snapshot_info # None
    /\ ~Ran(i, "destroy") /\ ~Ran(i, "collect")
    /\ findmnt_vxfs

\* The destination host name main() validates for the command line of i.
RequestedHost(i) ==
  IF main[i].args.host # "" THEN main[i].args.host
  ELSE get_remote_host_from_script_name(main[i].args.script)

\* Nothing was created on the source host or changed on the destination.
NoWorkDone(i) ==
  /\ cmds[i] \in {<<>>, <<"prefetch">>}
  /\ main[i].active_snapshot_info = None /\ vx.torn = {}
  /\ remote[i].received = {} /\ remote[i].xml = {} /\ remote[i].defined = {}
  /\ remote[i].templates = {} /\ ~remote[i].scripts /\ ~remote[i].down

\* C6: a failed pre-flight check (destination name empty, unresolvable or the
\* local host; SSH round trip failed; remote mount point "/" or not
\* queryable) ends the run at once with exit code 127, before any snapshot is
\* created, any file transferred or any VM defined on the destination.
C6_PreflightFailureExits127 ==
  \A i \in Inst :
    /\ (main[i].pc \notin {"off", "parse_args", "determine_host"}
          /\ ~validate_remote_host(RequestedHost(i))) => main[i].exit_code = Some(127)
    /\ main[i].ssh = Some(FALSE) => main[i].exit_code = Some(127)
    /\ (main[i].df # None /\ \E n \in DOMAIN The(main[i].df) : The(main[i].df)[n] \in {"/", "error"})
          => main[i].exit_code = Some(127)
    /\ main[i].exit_code = Some(127) => At(i, "exit") /\ NoWorkDone(i)

\* A run that found "/" as the remote mount point and ended with 127.
C6_Witness ==
  \E i \in Inst :
    /\ main[i].df # None /\ The(main[i].df)[1] = "/"
    /\ main[i].exit_code = Some(127) /\ cmds[i] = <<"prefetch">>

\* The stages of a run in the order main() goes through them; 0 for a logged
\* command that is no stage.
StageRank(tag) ==
  CASE tag = "prefetch" -> 1 [] tag = "collect" -> 2 [] tag = "resolve" -> 3
    [] tag = "snapshot" -> 4 [] tag = "finalize" -> 5 [] tag = "disk" -> 6
    [] tag = "nvram" -> 7 [] tag = "xml" -> 8 [] tag = "define" -> 9
    [] OTHER -> 0
Stages(i) == SelectSeq(cmds[i], LAMBDA tag : StageRank(tag) > 0)
LastStage(i) == IF Stages(i) = <<>> THEN "" ELSE Stages(i)[Len(Stages(i))]

\* C7: the stages of a run occur in the order prefetch, collection, sync-set
\* resolution, snapshot creation, finalisation of the transfer paths, disk
\* transfer, firmware transfer, configuration transfer and definition, each
\* finished before the next begins; no configuration document is transferred
\* or defined before the disk transfers have finished, and a run interrupted
\* during the disk transfer leaves no VM definition on the destination.
C7_StagesInOrder ==
  \A i \in Inst :
    LET s == Stages(i) IN
    /\ \A m, n \in DOMAIN s :
          m < n => \/ StageRank(s[m]) < StageRank(s[n])
                   \/ s[m] = "nvram" /\ s[n] = "nvram"
    /\ \A c \in self[i].child_processes : c.cmd \in {LastStage(i), "tools"}
    /\ Cardinality(self[i].child_processes) <= 1
    /\ (Ran(i, "xml") \/ Ran(i, "define") \/ remote[i].xml # {} \/ remote[i].defined # {})
          => /\ \A c \in self[i].child_processes : c.cmd \notin {"disk", "nvram"}
             /\ main[i].pc \in {"xml_wait", "define", "tools", "tools_wait", "finally",
                                "ds_findmnt", "ds_umount", "ds_dis", "ds_rm", "ds_unprepare",
                                "after_pass", "poweroff", "exit"}
    /\ \A m \in DOMAIN cmds[i] :
          (m > 1 /\ cmds[i][m] = "interrupt" /\ cmds[i][m - 1] = "disk")
            => /\ remote[i].xml = {} /\ remote[i].defined = {}
               /\ ~Ran(i, "xml") /\ ~Ran(i, "define")

\* A run interrupted during the disk transfer, part of it already received, has
\* ended with nothing defined on the destination.
C7_Witness ==
  \E i \in Inst :
    /\ At(i, "exit") /\ main[i].exc = Some("KeyboardInterrupt")
    /\ Ran(i, "interrupt")
    /\ Stages(i) = <<"prefetch", "collect", "resolve", "snapshot", "finalize", "disk">>
    /\ remote[i].received # {} /\ remote[i].defined = {}

\* The files of the sync set of i, by base name.
SyncSet(i) ==
  {main[i].disk_files[n].base : n \in DOMAIN main[i].disk_files}
    \cup {main[i].nvram_files[n].base : n \in DOMAIN main[i].nvram_files}

\* Phase 3 compares modification times for instance i.
ComparesMtimes(i) ==
  ~self[i].force_action /\ ~host_config(i).skip_stat_check /\ self[i].stat_available

\* C9: when modification times are compared, a candidate is in the sync set if
\* and only if its local time is strictly greater than its remote time; a file
\* missing on the destination has remote time zero and is included; the batched
\* and the per-file path classify every pair of times alike.
C9_SyncIffLocalNewer ==
  /\ \A l, r \in 0..MaxMtime :
        /\ batch_needs_sync(l, r) <=> l > r
        /\ fallback_needs_sync(l, r) <=> l > r
  /\ \A i \in Inst :
        (Ran(i, "resolve") /\ ComparesMtimes(i)) =>
          LET fil == main[i].file_info_list
              l == main[i].local_mtime
              r == main[i].remote_mtime
          IN /\ DOMAIN l = DOMAIN fil /\ DOMAIN r = DOMAIN fil
             /\ \A n \in DOMAIN fil :
                   /\ fil[n].remote_path.base \in SyncSet(i) <=> l[n] > r[n]
                   /\ (At(i, "phase4") /\ remote[i].files[fil[n].remote_path.base] = 0)
                        => r[n] = 0 /\ fil[n].remote_path.base \in SyncSet(i)

\* The per-file path was taken after a failed batch query: a file with equal
\* times was skipped and a file missing on the destination was included.
C9_Witness ==
  \E i \in Inst :
    /\ At(i, "phase4") /\ ComparesMtimes(i) /\ ~main[i].use_batch_stat
    /\ \E m, n \in DOMAIN main[i].file_info_list :
          /\ main[i].local_mtime[m] = main[i].remote_mtime[m]
          /\ main[i].file_info_list[m].remote_path.base \notin SyncSet(i)
          /\ remote[i].files[main[i].file_info_list[n].remote_path.base] = 0
          /\ main[i].file_info_list[n].remote_path.base \in SyncSet(i)

C10_State ==
  \A i \in Inst :
    (Ran(i, "resolve") /\ ~ComparesMtimes(i)) =>
       /\ \A n \in DOMAIN main[i].file_info_list :
             main[i].file_info_list[n].remote_path.base \in SyncSet(i)
       /\ main[i].vms_to_sync =
             {main[i].file_info_list[n].vm_name : n \in DOMAIN main[i].file_info_list}
       /\ main[i].remote_mtimes = <<>> /\ main[i].remote_mtime = <<>>
       /\ ~main[i].use_batch_stat

C10_Step ==
  \A i \in Inst :
    (At(i, "test_stat") /\ main'[i] # main[i]) =>
       /\ main'[i] = [main[i] EXCEPT !.pc = "check_mounts"]
       /\ [self'[i] EXCEPT !.stat_available = TRUE] = [self[i] EXCEPT !.stat_available = TRUE]
       /\ cmds'[i] = cmds[i] /\ remote'[i] = remote[i]

\* C10: with --force, skip_stat_check or stat unavailable on either side every
\* collected candidate is in the sync set and no remote modification time has
\* been queried; the stat probe changes nothing but stat_available and the
\* run goes on to the mount check.
C10_UnconditionalSync == []C10_State /\ [][C10_Step]_vars

\* The stat probe failed and the run went on: files whose times are identical
\* on the destination are in the sync set all the same.
C10_Witness ==
  \E i \in Inst :
    /\ At(i, "phase4") /\ ~self[i].stat_available
    /\ ~self[i].force_action /\ ~host_config(i).skip_stat_check
    /\ main[i].file_info_list # <<>>
    /\ \A n \in DOMAIN main[i].file_info_list :
          LET b == main[i].file_info_list[n].remote_path.base IN
          remote[i].files[b] = lfs[b] /\ b \in SyncSet(i)

\* Instance i is in its second run, past phase 3, the first run having ended
\* with exit code 0.
SecondRunResolved(i) == run[i] = <<0>> /\ Ran(i, "resolve")

\* The second run of i started a disk, firmware or configuration transfer.
TransferStarted(i) ==
  Ran(i, "disk") \/ Ran(i, "nvram") \/ Ran(i, "xml") \/ Ran(i, "define")

\* Phase 3 of i read the modification times the destination really has.
RemoteTimesRead(i) ==
  /\ DOMAIN main[i].remote_mtime = DOMAIN main[i].file_info_list
  /\ \A n \in DOMAIN main[i].file_info_list :
        main[i].remote_mtime[n] = remote[i].files[main[i].file_info_list[n].remote_path.base]

\* C8 as stated: after a successful first run the second run, started with the
\* same arguments and the local files unchanged, finds every candidate with
\* local time equal to remote time and starts no transfer.
C8_SecondRunAllIdentical ==
  \A i \in Inst :
    SecondRunResolved(i) =>
      /\ DOMAIN main[i].local_mtime = DOMAIN main[i].file_info_list
      /\ DOMAIN main[i].remote_mtime = DOMAIN main[i].file_info_list
      /\ \A n \in DOMAIN main[i].file_info_list :
            main[i].local_mtime[n] = main[i].remote_mtime[n]
      /\ SyncSet(i) = {} /\ main[i].vms_to_sync = {}
      /\ ~TransferStarted(i)

\* C8, amended: if modification times are compared (no --force, no
\* skip_stat_check, stat available), the runs are no dry runs (-d, -t) and the
\* second run read the destination's times, then the second run starts no
\* transfer and finds no candidate newer locally: times are equal for every
\* file the first run sent, and the destination's is the later one otherwise.
C8_SecondRunSyncsNothing ==
  \A i \in Inst :
    (/\ SecondRunResolved(i)
     /\ ComparesMtimes(i) /\ ~self[i].debug /\ ~self[i].test_only
     /\ RemoteTimesRead(i)) =>
      /\ DOMAIN main[i].local_mtime = DOMAIN main[i].file_info_list
      /\ \A n \in DOMAIN main[i].file_info_list :
            /\ main[i].local_mtime[n] <= main[i].remote_mtime[n]
            /\ main[i].file_info_list[n].remote_path.base \in remote[i].received
                 => main[i].local_mtime[n] = main[i].remote_mtime[n]
      /\ SyncSet(i) = {} /\ main[i].vms_to_sync = {}
      /\ ~TransferStarted(i)

\* A second run past phase 3 with nothing to send, the first run having sent
\* one of its two candidates and skipped the other.
C8_Witness ==
  \E i \in Inst :
    /\ SecondRunResolved(i) /\ At(i, "phase4")
    /\ ComparesMtimes(i) /\ ~self[i].debug /\ ~self[i].test_only
    /\ RemoteTimesRead(i)
    /\ Len(main[i].file_info_list) = 2 /\ Cardinality(remote[i].received) = 1
    /\ SyncSet(i) = {}

\* C11: a failed batched remote query does not abort the run; every candidate
\* is then classified by a query for its own remote path, none is dropped and
\* none is classified without one.
C11_BatchFailureFallsBack ==
  \A i \in Inst :
    main[i].batch_rc = Some(FALSE) =>
      /\ At(i, "compare") => main[i].exc = None /\ main[i].exit_code = None
      /\ Ran(i, "resolve") =>
            LET fil == main[i].file_info_list IN
            /\ DOMAIN main[i].stat_queries = DOMAIN fil
            /\ \A n \in DOMAIN fil : main[i].stat_queries[n] = fil[n].remote_path
            /\ DOMAIN main[i].remote_mtime = DOMAIN fil
            /\ \A n \in DOMAIN fil :
                  fil[n].remote_path.base \in SyncSet(i)
                    <=> main[i].local_mtime[n] > main[i].remote_mtime[n]

\* After a failed batch query two candidates were queried one by one: one is
\* in the sync set, the other, identical on the destination, is not.
C11_Witness ==
  \E i \in Inst :
    /\ main[i].batch_rc = Some(FALSE) /\ At(i, "phase4")
    /\ Len(main[i].stat_queries) = 2 /\ Cardinality(SyncSet(i)) = 1
    /\ \E n \in DOMAIN main[i].file_info_list :
          main[i].remote_mtime[n] = main[i].local_mtime[n]

\* Phase 3 of i classified the n-th candidate as to be sent.
Stale(i, n) ==
  ~ComparesMtimes(i) \/ main[i].local_mtime[n] > main[i].remote_mtime[n]

\* The candidate VMs of i none of whose files phase 3 classified as to be sent.
UnchangedVms(i) ==
  LET fil == main[i].file_info_list IN
  {vm \in {fil[n].vm_name : n \in DOMAIN fil} :
     \A n \in DOMAIN fil : fil[n].vm_name = vm => ~Stale(i, n)}

\* C12: a VM's configuration is synced and defined on the destination only if
\* one of its files was classified stale in the pass; of a candidate VM whose
\* files are all identical no disk file, firmware file or configuration
\* document is transferred.
C12_ConfigOnlyForStaleVms ==
  \A i \in Inst :
    Ran(i, "resolve") =>
      LET fil == main[i].file_info_list IN
      /\ \A vm \in main[i].vms_to_sync \cup remote[i].xml \cup remote[i].defined
                      \cup remote[i].templates :
            \E n \in DOMAIN fil : fil[n].vm_name = vm /\ Stale(i, n)
      /\ \A n \in DOMAIN fil :
            fil[n].vm_name \in UnchangedVms(i) =>
              /\ fil[n].remote_path.base \notin SyncSet(i)
              /\ fil[n].remote_path.base \notin remote[i].received

\* A finished run that compared times: alpha's files were identical and
\* nothing of alpha was sent, beta was sent and defined.
C12_Witness ==
  \E i \in Inst :
    /\ At(i, "exit") /\ ComparesMtimes(i) /\ Ran(i, "resolve")
    /\ UnchangedVms(i) = {"alpha"}
    /\ remote[i].xml = {"beta"} /\ remote[i].defined = {"beta"}
    /\ remote[i].received = {Base("beta", "disk"), Base("beta", "nvram")}

\* Snapshots are disabled for the run of i: by -s/--novxsnap or by the source
\* host's entry in the host table.
SnapshotsDisabled(i) ==
  \/ main[i].args.novxsnap
  \/ hostname \in TableHosts /\ ~host_configs(hostname).vxfs_snapshots

\* Every local path of the run of i is a path of the live file system.
LivePathsOnly(i) ==
  /\ \A n \in DOMAIN main[i].file_info_list : main[i].file_info_list[n].local_path.mnt = KvmFsMnt
  /\ \A n \in DOMAIN main[i].disk_files : main[i].disk_files[n].mnt = KvmFsMnt
  /\ \A n \in DOMAIN main[i].nvram_files : main[i].nvram_files[n].mnt = KvmFsMnt

\* create_vxfs_snapshot is called only for a non-empty sync set, without an
\* adopted snapshot, with snapshots enabled; with snapshots disabled nothing
\* is discovered, created, redirected or torn down.
SnapshotOnlyWhenNeeded(i) ==
  /\ Ran(i, "snapshot") =>
        /\ SyncSet(i) # {} /\ main[i].existing_snapshot_info = None
        /\ ~SnapshotsDisabled(i)
  /\ (main[i].pc \notin {"off", "parse_args"} /\ SnapshotsDisabled(i)) =>
        /\ \A tag \in {"discover", "snapshot", "recheck", "destroy", "umount",
                         "umount_failed", "dis"} : ~Ran(i, tag)
        /\ main[i].pc \notin {"cr_prepare", "cr_make", "cr_findmnt", "cr_mount", "cr_recheck",
                               "ds_findmnt", "ds_umount", "ds_dis", "ds_rm", "ds_unprepare"}
        /\ main[i].existing_snapshot_info = None /\ main[i].active_snapshot_info = None
        /\ LivePathsOnly(i)

\* The run of i has ended, its pass having found nothing to send.
EndedWithEmptySyncSet(i) ==
  At(i, "exit") /\ Ran(i, "collect") /\ SyncSet(i) = {}

\* C13 as stated: create_vxfs_snapshot is called only for a non-empty sync
\* set, no adopted snapshot and snapshots enabled; with snapshots disabled
\* there is no discovery, creation, redirection or teardown; a run whose sync
\* set is empty creates no snapshot and exits 0.
C13_EmptySyncSetExitsZero ==
  \A i \in Inst :
    /\ SnapshotOnlyWhenNeeded(i)
    /\ EndedWithEmptySyncSet(i) => ~Ran(i, "snapshot") /\ main[i].exit_code = Some(0)

\* C13, amended: as stated, but a run whose sync set is empty exits 0 unless
\* its toolchain copy failed or was interrupted.
C13_SnapshotOnlyForSyncSet ==
  \A i \in Inst :
    /\ SnapshotOnlyWhenNeeded(i)
    /\ EndedWithEmptySyncSet(i) =>
          /\ ~Ran(i, "snapshot")
          /\ main[i].exit_code = Some(0) <=> (Ran(i, "tools") => remote[i].scripts)
          /\ main[i].file_info_list = <<>> => main[i].exit_code = Some(0)

\* On a source host whose table entry disables snapshots a run sent files from
\* the live paths while a snapshot of the file system was mounted.
C13_Witness ==
  \E i \in Inst :
    /\ At(i, "exit") /\ ~main[i].args.novxsnap /\ SnapshotsDisabled(i)
    /\ remote[i].received # {} /\ findmnt_vxfs /\ LivePathsOnly(i)

\* create_vxfs_snapshot was called for the pass of i and returned no handle.
CreateFailed(i) ==
  /\ Ran(i, "snapshot") /\ main[i].snapshot_info = None
  /\ main[i].pc \notin {"phase4", "cr_prepare", "cr_make", "cr_findmnt", "cr_mount", "cr_recheck"}

DstDirOf(i, kind) ==
  IF kind = "disk" THEN host_config(i).kvm_images_dst_dirs[1]
  ELSE host_config(i).kvm_nvram_dst_dirs[1]

\* C15: in every FileInfo of collect_files_for_sync remote_path is the
\* destination directory of the file's kind joined with the file's base name
\* and dst_dir is that directory; neither is the snapshot mount or below it,
\* whether local_path is live or redirected into the snapshot mount.
C15_RemotePathIsDestination ==
  \A i \in Inst :
    \A n \in DOMAIN main[i].file_info_list :
      LET fi == main[i].file_info_list[n] IN
      /\ fi.local_path.mnt \in {KvmFsMnt, VxsnapMnt}
      /\ fi.local_path.base = Base(fi.vm_name, fi.file_type)
      /\ fi.remote_path = [dir |-> DstDirOf(i, fi.file_type), base |-> fi.local_path.base]
      /\ fi.dst_dir = DstDirOf(i, fi.file_type)
      /\ fi.dst_dir # VxsnapMnt /\ fi.remote_path.dir # VxsnapMnt

\* Candidates collected through an adopted snapshot for a NAS destination.
C15_Witness ==
  \E i \in Inst :
    /\ Len(main[i].file_info_list) = 2
    /\ \A n \in DOMAIN main[i].file_info_list :
          main[i].file_info_list[n].local_path.mnt = VxsnapMnt
    /\ main[i].file_info_list[1].remote_path.dir = "/volume1/kvm0/images"
    /\ main[i].file_info_list[2].dst_dir = "/volume1/kvm0/nvram"

\* C16: when the operator interrupts a transfer, every tracked child process
\* still running and all its descendants are terminated before the
\* interruption leaves the transfer operation; after cleanup_child_processes
\* nothing of them is running, and the run exits non-zero.
C16_ChildrenGoneAfterInterrupt ==
  \A i \in Inst :
    Ran(i, "interrupt") =>
      /\ self[i].child_processes = {}
      /\ procs[i] = {}
      /\ At(i, "exit") => main[i].exit_code \notin {None, Some(0)}

\* An interrupted disk transfer from the snapshot: the run has ended with exit
\* code 130, rsync processes of the fan-out are still running, and the
\* snapshot they read from could not be unmounted.
C16_DescendantSurvives ==
  \E i \in Inst :
    /\ Ran(i, "interrupt") /\ At(i, "exit") /\ main[i].exit_code = Some(130)
    /\ self[i].child_processes = {}
    /\ \E c \in procs[i] : c.cmd = "disk" /\ c.snap
    /\ Ran(i, "umount_failed") /\ findmnt_vxfs

\* The number of firmware transfers the run of i has started.
NvramStarted(i) == Len(SelectSeq(cmds[i], LAMBDA tag : tag = "nvram"))

\* The pass of i is over.
PassOver(i) ==
  main[i].pc \in {"finally", "ds_findmnt", "ds_umount", "ds_dis", "ds_rm", "ds_unprepare",
                  "after_pass", "poweroff", "exit"}

C17_State ==
  \A i \in Inst :
    (~main[i].success /\ main[i].exc = None /\ PassOver(i)) =>
      /\ NvramStarted(i) = Len(main[i].nvram_files)
      /\ main[i].vms_to_sync # {} => Ran(i, "xml")
      /\ ~self[i].debug => Ran(i, "tools")
      /\ At(i, "exit") => main[i].exit_code = Some(1)

C17_Step ==
  \A i \in Inst :
    (~main[i].success /\ ~At(i, "exit")) => ~main'[i].success

\* C17: a failed disk, firmware or configuration transfer sets the failure
\* flag without stopping the run: the remaining firmware files, the
\* configuration sync and the toolchain copy are still attempted, and the flag
\* is never cleared before the run ends.
C17_FailureDoesNotStopThePass == []C17_State /\ [][C17_Step]_vars

\* The disk fan-out failed for alpha's disk; both firmware files, the
\* configuration documents and the tools were sent all the same, exit code 1.
C17_Witness ==
  \E i \in Inst :
    /\ At(i, "exit") /\ main[i].exit_code = Some(1) /\ ~main[i].success
    /\ Len(main[i].disk_files) = 2 /\ Len(main[i].nvram_files) = 2
    /\ Base("alpha", "disk") \notin remote[i].received
    /\ {Base("alpha", "nvram"), Base("beta", "nvram")} \subseteq remote[i].received
    /\ remote[i].defined = {"alpha", "beta"} /\ remote[i].scripts

\* The VMs the batch of sync_vm_configs reported with the given word.
Reported(i, word) ==
  LET out == The(main[i].define).result.stdout IN
  {out[n][2] : n \in {m \in DOMAIN out : out[m][1] = word}}

\* C18: the remote batch of sync_vm_configs normalises and tries to define
\* every VM of the list, also after an earlier definition failed; a document
\* is archived to the templates directory only if its own definition
\* succeeded; every VM is reported OK or FAILED; the operation returns failure
\* if and only if a VM failed or the batch itself failed.
C18_DefineBatchCoversEveryVm ==
  \A i \in Inst :
    main[i].define # None =>
      LET d == The(main[i].define)
          vms == main[i].vms_to_sync
      IN /\ d.ran =>
              /\ remote[i].normalised = vms
              /\ remote[i].defined = vms \ d.fails
              /\ remote[i].templates \subseteq vms \ d.fails
              /\ Reported(i, "OK") = vms \ d.fails
              /\ Reported(i, "FAILED") = vms \cap d.fails
              /\ Len(d.result.stdout) = Cardinality(vms)
         /\ ~d.returned <=> (d.fails # {} \/ ~d.ran)
         /\ ~d.returned => ~main[i].success

\* The definition of alpha, first in the batch, failed; beta was defined and
\* archived after it, and the operation returned failure.
C18_Witness ==
  \E i \in Inst :
    /\ main[i].define # None /\ The(main[i].define).fails = {"alpha"}
    /\ main[i].vms_to_sync = {"alpha", "beta"}
    /\ remote[i].defined = {"beta"} /\ remote[i].templates = {"beta"}
    /\ ~The(main[i].define).returned

\* A pre-flight check of the run of i failed.
PreflightFailed(i) ==
  \/ ~validate_remote_host(RequestedHost(i))
  \/ main[i].ssh = Some(FALSE)
  \/ main[i].df # None /\ \E n \in DOMAIN The(main[i].df) : The(main[i].df)[n] \in {"/", "error"}

\* A transfer the run of i has made failed: a disk or firmware file not
\* received, the configuration documents not received, a VM not defined, the
\* tools not copied.
TransferFailed(i) ==
  \/ Ran(i, "disk") /\ \E n \in DOMAIN main[i].disk_files :
                          main[i].disk_files[n].base \notin remote[i].received
  \/ \E n \in 1..NvramStarted(i) : main[i].nvram_files[n].base \notin remote[i].received
  \/ Ran(i, "xml") /\ ~(main[i].vms_to_sync \subseteq remote[i].xml)
  \/ Ran(i, "define") /\ remote[i].defined # main[i].vms_to_sync
  \/ Ran(i, "tools") /\ ~remote[i].scripts

\* The run of i has ended and was no dry run.
RunEnded(i) == At(i, "exit") /\ ~self[i].debug /\ ~self[i].test_only

ShutdownTail(i) ==
  LET c == cmds[i]
      at == {n \in DOMAIN c : c[n] \in {"hastop", "poweroff"}}
  IN IF at = {} THEN <<>>
     ELSE LET first == CHOOSE n \in at : \A m \in at : n <= m
          IN SubSeq(c, first, Len(c))

\* C20: the cluster-stop and the power-off are issued only with -p, after the
\* transfers and the snapshot release, cluster-stop first, and only by a run
\* in which nothing failed.
C20_PoweroffOnlyAfterSuccess ==
  \A i \in Inst :
    /\ ~self[i].poweroff => ShutdownTail(i) = <<>>
    /\ ShutdownTail(i) # <<>> =>
          /\ ShutdownTail(i) = <<"hastop", "poweroff">>
          /\ At(i, "exit") /\ main[i].active_snapshot_info # None => Ran(i, "destroy")
          /\ main[i].success /\ ~TransferFailed(i)

\* A run with -p whose disk transfer failed has stopped the cluster and powered
\* the destination off, and ends with exit code 1.
C20_PoweredOffAfterFailure ==
  \E i \in Inst :
    /\ At(i, "exit") /\ self[i].poweroff /\ main[i].exit_code = Some(1)
    /\ ShutdownTail(i) = <<"hastop", "poweroff">> /\ remote[i].down
    /\ Ran(i, "disk") /\ ~main[i].success /\ TransferFailed(i)

\* C21: a requested destination (from --host or from the script name) that is
\* the local machine's own hostname ends the run with exit code 127 in host
\* resolution, before any configuration is chosen or any remote command is
\* issued, with or without an entry for the name in the configuration table.
C21_SelfTargetExits127 ==
  \A i \in Inst :
    (RequestedHost(i) = hostname /\ main[i].pc \notin {"off", "parse_args", "determine_host"}) =>
      /\ At(i, "exit") /\ main[i].exit_code = Some(127)
      /\ main[i].detected = None /\ self[i].host_config = None /\ self[i].remote_host = ""
      /\ main[i].ssh = None /\ cmds[i] = <<>>
      /\ self[i].running_vms_remote = None /\ remote[i].received = {}

\* A run on thorbardin, which has an entry in the table, asked to replicate
\* to thorbardin, and a run on kalaman under the script name that stands for
\* kalaman: both ended with 127.
C21_Witness ==
  \E i \in Inst :
    /\ At(i, "exit") /\ main[i].exit_code = Some(127) /\ RequestedHost(i) = hostname
    /\ \/ hostname = "thorbardin" /\ main[i].args.host = "thorbardin"
       \/ hostname = "kalaman" /\ main[i].args.host = ""

\* C22: in every run past host resolution the effective remote host resolves
\* by name lookup and is not the local host.
C22_EffectiveHostValidated ==
  \A i \in Inst :
    self[i].host_config # None =>
      /\ self[i].remote_host \in Resolvable
      /\ self[i].remote_host # hostname

\* A run on daltigoth-228 asked to replicate to daltigoth has transferred
\* alpha's disk file to daltigoth-228, the host it runs on.
C22_ReplicatedToItself ==
  \E i \in Inst :
    /\ At(i, "exit") /\ main[i].exit_code = Some(0)
    /\ main[i].detected = Some("daltigoth") /\ self[i].remote_host = hostname
    /\ Ran(i, "disk") /\ Base("alpha", "disk") \in remote[i].received

\* C23: for a hostname without an entry in the configuration table
\* setup_host_config raises nothing (the run goes on to the SSH test) and
\* leaves the generic configuration:
\* the standard destination directories, one thread, snapshots, no skip flag,
\* the default VM list, and the requested hostname as effective remote host.
C23_DefaultConfigOutsideTable ==
  \A i \in Inst :
    (main[i].detected # None /\ The(main[i].detected) \notin TableHosts
       /\ ~At(i, "setup_host_config")) =>
      /\ self[i].host_config =
            Some([remote_host |-> "", threads |-> 1,
                  kvm_images_dst_dirs |-> <<"/shared/kvm0/images">>,
                  kvm_nvram_dst_dirs |-> <<"/shared/kvm0/nvram">>,
                  stat_path |-> "", skip_define |-> FALSE, vxfs_snapshots |-> TRUE,
                  skip_mount_check |-> FALSE, skip_stat_check |-> FALSE,
                  default_vm_list |-> {"alpha", "beta"}])
      /\ self[i].remote_host = The(main[i].detected)
      /\ At(i, "test_ssh") => main[i].exc = None /\ main[i].exit_code = None

\* A run to a host outside the table went on to the SSH test with the generic
\* configuration.
C23_Witness ==
  \E i \in Inst :
    /\ At(i, "test_ssh") /\ main[i].detected = Some("elsewhere")
    /\ main[i].args.skip_stat_check
    /\ self[i].host_config = Some(DefaultHostConfig) /\ self[i].remote_host = "elsewhere"

\* C24: unless the host skips the mount check, a run goes on past it only if
\* every image directory and every firmware directory of the destination was
\* reported on a mount point other than "/"; no report counts as a failure.
C24_EveryDestinationOnAMount ==
  \A i \in Inst :
    (At(i, "process_vm_list") /\ ~host_config(i).skip_mount_check) =>
      /\ main[i].df # None
      /\ LET df == The(main[i].df)
             queried == host_config(i).kvm_images_dst_dirs
             configured == {host_config(i).kvm_images_dst_dirs[n] :
                              n \in DOMAIN host_config(i).kvm_images_dst_dirs}
                           \cup {host_config(i).kvm_nvram_dst_dirs[n] :
                                   n \in DOMAIN host_config(i).kvm_nvram_dst_dirs}
         IN \A d \in configured :
              \E n \in DOMAIN df :
                 queried[n] = d /\ df[n] \notin {"error", "header_only", "/"}

\* A run went on past the mount check although df printed no mount point for
\* the image directory; the firmware directory was not asked about.
C24_ProceededUnverified ==
  \E i \in Inst :
    /\ At(i, "process_vm_list") /\ ~host_config(i).skip_mount_check
    /\ main[i].df = Some(<<"header_only">>)
    /\ host_config(i).kvm_nvram_dst_dirs = <<"/shared/kvm0/nvram">>

C25_State ==
  \A i \in Inst :
    self[i].debug =>
      /\ \A tag \in {"umount", "umount_failed", "dis", "define", "tools", "hastop", "poweroff"} :
            ~Ran(i, tag)
      /\ remote[i].received = {} /\ remote[i].xml = {} /\ remote[i].normalised = {}
      /\ remote[i].defined = {} /\ remote[i].templates = {}
      /\ ~remote[i].scripts /\ ~remote[i].down
      /\ vx.torn = {}

C25_Step ==
  \A i \in Inst :
    self[i].debug => (vx' = vx /\ remote'[i] = remote[i])

\* C25: a run with --debug changes nothing: the volume manager and the mount
\* table of the source host stay as they are (nothing prepared, made, mounted,
\* unmounted or removed), no transfer writes to the destination, nothing is
\* normalised, defined or archived there, the tools are not copied, and
\* neither cluster-stop nor power-off is issued.
C25_DebugChangesNothing == []C25_State /\ [][C25_Step]_vars

\* A run with --debug and --poweroff has ended after going through snapshot
\* creation, the disk, firmware and configuration transfers and the snapshot
\* release.
C25_Witness ==
  \E i \in Inst :
    /\ At(i, "exit") /\ self[i].debug /\ self[i].poweroff /\ main[i].exc = None
    /\ main[i].active_snapshot_info = Some(SnapshotHandle)
    /\ Ran(i, "snapshot") /\ Ran(i, "disk") /\ Ran(i, "nvram") /\ Ran(i, "xml")
    /\ Ran(i, "destroy")
    /\ vx = NoVx /\ remote[i].received = {}

\* C26: normalisation maps pc-i440fx-<suffix> to pc and pc-q35-<suffix> to
\* q35, leaves the words pc and q35 as they are, and is idempotent: a
\* normalised document is unchanged by a second normalisation.
C26_NormalisationIdempotent ==
  \A k \in DOMAIN xml_content.parts :
    LET p == xml_content.parts[k]
        bare == p.before = <<>> /\ p.after = <<>>
    IN /\ xml_content.n >= 1 =>
            /\ (bare /\ p.kind = "i440fx") => xml_content.out[k] = <<"p", "c">>
            /\ (bare /\ p.kind = "q35") => xml_content.out[k] = <<"q", "3", "5">>
            /\ (bare /\ p.kind \in {"pc", "q35_word"}) =>
                  xml_content.out[k] = xml_content.src[k]
       /\ xml_content.n = 2 => xml_content.again[k] = xml_content.out[k]

\* pc-q35-r9.2 between a memory size and a quote was normalised to q35, and
\* the second normalisation left the document as it was.
C26_Witness ==
  /\ xml_content.n = 2
  /\ xml_content.src[1] = <<"m", "4", "'", "p", "c", "-", "q", "3", "5", "-",
                            "r", "9", ".", "2", "'">>
  /\ xml_content.out[1] = <<"m", "4", "'", "q", "3", "5", "'">>
  /\ xml_content.again[1] = xml_content.out[1]

HadSnapshot(i) ==
  main[i].existing_snapshot_info # None \/ main[i].snapshot_info # None

\* C28: once every instance that discovered or created the snapshot has
\* finished its run (normally, with transfer failures, or interrupted), the
\* snapshot is unmounted and its volume removed: no snapshot mount and no
\* snapshot volume is left on the source host.
C28_NoOrphanedSnapshot ==
  ((\A i \in Inst : At(i, "exit")) /\ (\E i \in Inst : HadSnapshot(i)))
    => (vx.mounts = 0 /\ vx.volumes = 0)

\* Both instances have finished: j had discovered the snapshot i created and
\* ended with exit code 0, i was interrupted and ended with exit code 130; both
\* invoked destroy_vxfs_snapshot, and the snapshot is still mounted.
C28_OrphanedAfterInterrupt ==
  \E i, j \in Inst :
    /\ i # j /\ At(i, "exit") /\ At(j, "exit")
    /\ main[i].snapshot_info = Some(SnapshotHandle)
    /\ main[j].existing_snapshot_info = Some(SnapshotHandle)
    /\ main[j].exit_code = Some(0) /\ Ran(j, "destroy")
    /\ Ran(i, "interrupt") /\ Ran(i, "destroy") /\ main[i].exit_code = Some(130)
    /\ vx.mounts = 1 /\ vx.volumes = 1

\* The list query of the run of i failed on the host where vm is running: the
\* prefetched set of that host is there and does not hold vm.
ListQueryMissed(i, vm) ==
  /\ ~self[i].force_action
  /\ self[i].running_vms_local # None /\ self[i].running_vms_remote # None
  /\ \/ vm \in lrun \ The(self[i].running_vms_local)
     \/ vm \in remote[i].running \ The(self[i].running_vms_remote)

\* C29: when the batched running-VM list query failed on the local or on the
\* remote host, a VM running on that host is still excluded from the sync (by
\* the per-VM domain-state query): it gets no FileInfo and no place in
\* vms_to_process, and none of its files is transferred.
C29_FailedListFallsBackPerVm ==
  \A i \in Inst, vm \in VMs :
    ListQueryMissed(i, vm) =>
      /\ vm \notin main[i].vms_to_process
      /\ \A n \in DOMAIN main[i].file_info_list : main[i].file_info_list[n].vm_name # vm
      /\ \A b \in remote[i].received : b[1] # vm

\* virsh list failed on the source host, where alpha is running; the finished
\* run exited 0 and has transferred the disk of alpha.
C29_RunningVmTransferred ==
  \E i \in Inst :
    /\ At(i, "exit") /\ main[i].exit_code = Some(0)
    /\ ~self[i].force_action
    /\ "alpha" \in lrun /\ self[i].running_vms_local = Some({})
    /\ Base("alpha", "disk") \in remote[i].received

\* C30: when a run without --force (and without --debug) exits 0, every disk
\* and firmware file of every listed VM that is not running, exists on the live
\* source file system and was newer than its remote copy has been transferred:
\* no such file is still newer than its remote copy.  This is to hold also
\* while other instances share or tear down the snapshot.
C30_ExitZeroMeansReplicated ==
  \A i \in Inst :
    (At(i, "exit") /\ main[i].exit_code = Some(0)
       /\ ~self[i].force_action /\ ~self[i].debug) =>
      \A vm \in (main[i].vm_list \cap VMs) \ (lrun \cup remote[i].running) :
        \A kind \in Kinds :
          lfs[Base(vm, kind)] > 0 =>
            remote[i].files[Base(vm, kind)] >= lfs[Base(vm, kind)]

\* No command failed.  Instance j adopted the snapshot that i had mounted, i
\* unmounted it before j looked for the files below the snapshot mount, j
\* found none, transferred nothing and exited 0; the disk of alpha is still
\* newer than its copy on the destination of j.
C30_NothingCollectedExitZero ==
  \E i, j \in Inst :
    /\ i # j /\ faults = SnapFaults
    /\ Ran(i, "snapshot") /\ Ran(i, "umount")
    /\ At(j, "exit") /\ main[j].exit_code = Some(0)
    /\ main[j].existing_snapshot_info = Some(SnapshotHandle)
    /\ Ran(j, "collect") /\ main[j].file_info_list = <<>>
    /\ remote[j].received = {}
    /\ lfs[Base("alpha", "disk")] > remote[j].files[Base("alpha", "disk")]

====
